---- MODULE Spec2Model ----
(***************************************************************************)
(* Checkers (adamsvestka/Checkers): the board, the move generator, the     *)
(* compound-move expander, the alpha-beta search with its global cache and *)
(* the turn logic of the Game, translated from src/checkers.py and         *)
(* src/computer.py.                                                        *)
(*                                                                         *)
(* A grid is the 64-character string of Board.grid, kept as a sequence of  *)
(* one-character strings (Python index i is TLA+ index i + 1).  A vec2 is  *)
(* the pair <<x, y>>.  A Python iterator or generator is the sequence of   *)
(* the values it yields, in order; a defaultdict is the sequence of its    *)
(* <<key, value>> items in insertion order.                                *)
(***************************************************************************)
EXTENDS Integers, Sequences, FiniteSets, TLC

(***************************************************************************)
(* Program constants                                                       *)
(***************************************************************************)
\* Tile.Count: board width and height in tiles.
Count == 8

\* env.MINIMUM_DEPTH is read from the environment variable MINIMUM_DEPTH
\* (default 7); the model runs the configuration MINIMUM_DEPTH=2.
MINIMUM_DEPTH == 2

\* float('inf'): larger than every score minimax can return (|score| <= 2000 + depth).
Inf == 1000000

\* Python's None for an Optional[vec2], and for an Optional[Player].
None == <<>>
NoPlayer == "NONE"

\* Player.ONE (the human) and Player.TWO (the computer); Player.Players.
Players == <<"ONE", "TWO">>

\* Player.other
Other(player) == IF player = "ONE" THEN "TWO" ELSE "ONE"

(***************************************************************************)
(* Sequence helpers (Python list and slice semantics)                      *)
(***************************************************************************)
Min(a, b) == IF a < b THEN a ELSE b
Max(a, b) == IF a > b THEN a ELSE b

\* Python's normalisation of a slice bound k for a sequence of length n.
SliceBound(k, n) == IF k < 0 THEN Max(k + n, 0) ELSE Min(k, n)

\* s[:i]
SliceTo(s, i) == SubSeq(s, 1, SliceBound(i, Len(s)))

\* s[i:]
SliceFrom(s, i) == SubSeq(s, SliceBound(i, Len(s)) + 1, Len(s))

\* The concatenation of a sequence of sequences (yield from / nested for loops).
RECURSIVE Flatten(_)
Flatten(ss) == IF ss = <<>> THEN <<>> ELSE Head(ss) \o Flatten(Tail(ss))

\* [f(s[1]), ..., f(s[n])]
MapSeq(f(_), s) == [i \in 1..Len(s) |-> f(s[i])]

\* The set of the elements of a sequence.
Range(s) == {s[i] : i \in 1..Len(s)}

(***************************************************************************)
(* vec2                                                                    *)
(***************************************************************************)
\* vec2.__add__
VAdd(a, b) == <<a[1] + b[1], a[2] + b[2]>>

\* vec2.__sub__
VSub(a, b) == <<a[1] - b[1], a[2] - b[2]>>

Abs(n) == IF n < 0 THEN -n ELSE n

\* vec2.distance
Distance(a, b) == Max(Abs(a[1] - b[1]), Abs(a[2] - b[2]))

\* vec2.center: None when the sum has an odd component, else (a + b) // 2.
Center(a, b) ==
    LET vec == VAdd(a, b)
    IN  IF vec[1] % 2 # 0 \/ vec[2] % 2 # 0 THEN None
        ELSE <<vec[1] \div 2, vec[2] \div 2>>

(***************************************************************************)
(* Tile and Piece                                                          *)
(***************************************************************************)
\* Tile.NO_TILE and Tile.EMPTY, by their character.
NO_TILE == " "
EMPTY == "."

\* Tile.piece is not None
HasPiece(t) == t \notin {" ", "."}

\* Tile.empty
TileEmpty(t) == ~HasPiece(t) /\ t # NO_TILE

\* Piece.player
PiecePlayer(t) == IF t \in {"1", "a"} THEN "ONE" ELSE "TWO"

\* Piece.king
PieceKing(t) == t \in {"a", "b"}

(***************************************************************************)
(* Board                                                                   *)
(***************************************************************************)
\* Board.AllTiles: every position, row by row.
AllTiles == [i \in 1..(Count * Count) |-> <<(i - 1) % Count, (i - 1) \div Count>>]

\* Board.Tiles: the playable positions, in the order of AllTiles.
Tiles == SelectSeq(AllTiles, LAMBDA vec : (vec[1] + vec[2]) % 2 = 1)

\* Board.IsInBoard
IsInBoard(pos) == 0 <= pos[1] /\ pos[1] < Count /\ 0 <= pos[2] /\ pos[2] < Count

\* Board.IsTile
IsTile(pos) == IsInBoard(pos) /\ (pos[1] + pos[2]) % 2 = 1

\* Board.get: the character of the tile, NO_TILE outside the board.
Get(grid, pos) ==
    IF ~IsInBoard(pos) THEN NO_TILE ELSE grid[pos[1] + pos[2] * Count + 1]

\* Board.set that inserts the value before the cell instead of replacing it.
SetInsert(grid, pos, value) ==
    LET i == pos[1] + pos[2] * Count
    IN  SliceTo(grid, i) \o <<value>> \o SliceFrom(grid, i)

\* Board.set: grid[:i] + value + grid[i + 1:], unchecked.
Set(grid, pos, value) ==
    LET i == pos[1] + pos[2] * Count
    IN  SliceTo(grid, i) \o <<value>> \o SliceFrom(grid, i + 1)

\* Board.__init__ filling the upper half with Player.TWO men and the lower
\* half with Player.ONE men, four rows each.
InitFillHalves(pos) == IF pos[2] < Count \div 2 THEN "2" ELSE "1"

\* Board.__init__ without a string, the body of its loop over Board.Tiles:
\* the value the tile holds after self.set(pos, ".") and the set that may
\* follow it, a Player.TWO man in the first three rows, a Player.ONE man
\* in the last three.
InitFill(pos) ==
    IF pos[2] < 3 THEN "2"
    ELSE IF pos[2] >= Count - 3 THEN "1"
    ELSE "."

\* Board().grid: " " * Count * Count with every tile of Board.Tiles filled.
StartGrid ==
    [i \in 1..(Count * Count) |->
        IF IsTile(AllTiles[i]) THEN InitFill(AllTiles[i]) ELSE " "]

\* Board.AdjacentTiles
AdjacentTiles(pos) ==
    LET directions == <<(<<1, 1>>), (<<1, -1>>), (<<-1, 1>>), (<<-1, -1>>)>>
    IN  SelectSeq([k \in 1..4 |-> VAdd(pos, directions[k])], IsInBoard)

\* Board.get_player_pieces
GetPlayerPieces(grid, player) ==
    SelectSeq(Tiles, LAMBDA tile :
        HasPiece(Get(grid, tile)) /\ PiecePlayer(Get(grid, tile)) = player)

\* get_piece_moves that jumps over a piece of either side.
PieceMovesAtAnyOwner(grid, pos, tile) ==
    LET Yielded(piece, target, res) ==
            IF PieceKing(piece) \/ ((tile[2] > pos[2]) = (PiecePlayer(piece) = "TWO"))
            THEN IF TileEmpty(target) THEN << <<tile, FALSE>> >>
                 ELSE IF HasPiece(target) /\ TileEmpty(Get(grid, res))
                      THEN << <<res, TRUE>> >>
                      ELSE <<>>
            ELSE <<>>
    IN  Yielded(Get(grid, pos), Get(grid, tile), VAdd(tile, VSub(tile, pos)))

\* get_piece_moves that jumps without looking at the landing square.
PieceMovesAtAnyLanding(grid, pos, tile) ==
    LET Yielded(piece, target, res) ==
            IF PieceKing(piece) \/ ((tile[2] > pos[2]) = (PiecePlayer(piece) = "TWO"))
            THEN IF TileEmpty(target) THEN << <<tile, FALSE>> >>
                 ELSE IF HasPiece(target) /\ PiecePlayer(target) # PiecePlayer(piece)
                      THEN << <<res, TRUE>> >>
                      ELSE <<>>
            ELSE <<>>
    IN  Yielded(Get(grid, pos), Get(grid, tile), VAdd(tile, VSub(tile, pos)))

\* Board.get_piece_moves, the body of its loop for the adjacent tile: the
\* <<target, capturing>> pair it yields, if any.
PieceMovesAt(grid, pos, tile) ==
    LET Yielded(piece, target, res) ==
            IF PieceKing(piece) \/ ((tile[2] > pos[2]) = (PiecePlayer(piece) = "TWO"))
            THEN IF TileEmpty(target) THEN << <<tile, FALSE>> >>
                 ELSE IF HasPiece(target) /\ PiecePlayer(target) # PiecePlayer(piece)
                         /\ TileEmpty(Get(grid, res))
                      THEN << <<res, TRUE>> >>
                      ELSE <<>>
            ELSE <<>>
    IN  Yielded(Get(grid, pos), Get(grid, tile), VAdd(tile, VSub(tile, pos)))

\* Board.get_piece_moves: the <<target, capturing>> pairs, in order.
GetPieceMoves(grid, pos) ==
    IF HasPiece(Get(grid, pos))
    THEN Flatten(MapSeq(LAMBDA tile : PieceMovesAt(grid, pos, tile), AdjacentTiles(pos)))
    ELSE <<>>

\* Board.move without line 538: the origin square keeps the piece.
MoveLeavesOrigin(grid, pos, pos2) ==
    LET Moved(tile, center) ==
            IF HasPiece(tile)
            THEN LET Cleared(g2) ==
                         IF center # None THEN Set(g2, center, EMPTY) ELSE g2
                 IN  Cleared(Set(grid, pos2, tile))
            ELSE grid
    IN  Moved(Get(grid, pos), Center(pos, pos2))

\* Board.move that puts the moved piece down as a man of its side.
MoveDemote(grid, pos, pos2) ==
    LET Moved(tile, center) ==
            IF HasPiece(tile)
            THEN LET Cleared(g2) ==
                         IF center # None THEN Set(g2, center, EMPTY) ELSE g2
                 IN  Cleared(Set(Set(grid, pos2,
                                     IF PiecePlayer(tile) = "ONE" THEN "1" ELSE "2"),
                                 pos, EMPTY))
            ELSE grid
    IN  Moved(Get(grid, pos), Center(pos, pos2))

\* Board.move
Move(grid, pos, pos2) ==
    LET Moved(tile, center) ==
            IF HasPiece(tile)
            THEN LET Cleared(g2) ==
                         IF center # None THEN Set(g2, center, EMPTY) ELSE g2
                 IN  Cleared(Set(Set(grid, pos2, tile), pos, EMPTY))
            ELSE grid
    IN  Moved(Get(grid, pos), Center(pos, pos2))

\* evaluate without the bonus of a man on an edge.
EvaluateFlat(grid, pos) == IF ~PieceKing(Get(grid, pos)) THEN 3 ELSE 7

\* Board.score, its inner function evaluate.
Evaluate(grid, pos) ==
    IF ~PieceKing(Get(grid, pos))
    THEN 3 + (IF pos[1] = 0 \/ pos[1] = Count - 1 THEN 1 ELSE 0)
           + (IF pos[2] = 0 \/ pos[2] = Count - 1 THEN 1 ELSE 0)
    ELSE 7

RECURSIVE SumSeq(_)
SumSeq(s) == IF s = <<>> THEN 0 ELSE Head(s) + SumSeq(Tail(s))

Score(grid, player) ==
    SumSeq(MapSeq(LAMBDA pos : Evaluate(grid, pos), GetPlayerPieces(grid, player)))
    - SumSeq(MapSeq(LAMBDA pos : Evaluate(grid, pos), GetPlayerPieces(grid, Other(player))))

(***************************************************************************)
(* computer.py: move generation for a side                                 *)
(***************************************************************************)
\* The destinations get_piece_moves yields for a tile, all or only the capturing ones.
Destinations(grid, tile, onlyCapturing) ==
    MapSeq(LAMBDA m : m[1],
           SelectSeq(GetPieceMoves(grid, tile), LAMBDA m : m[2] \/ ~onlyCapturing))

\* A map that keeps a key for every tile visited, with or without destinations.
MoveItemsWithEmpty(grid, tiles, onlyCapturing) ==
    MapSeq(LAMBDA tile : <<tile, Destinations(grid, tile, onlyCapturing)>>, tiles)

\* The items of a defaultdict(list) filled tile by tile: a key exists once
\* a destination was appended for it.
MoveItems(grid, tiles, onlyCapturing) ==
    SelectSeq(MapSeq(LAMBDA tile : <<tile, Destinations(grid, tile, onlyCapturing)>>,
                     tiles),
              LAMBDA item : item[2] # <<>>)

\* The pieces of the side, whatever piece is locked.
PiecesToMoveAll(grid, player, locked_piece) == GetPlayerPieces(grid, player)

\* [locked_piece] if locked_piece else board.get_player_pieces(player)
PiecesToMove(grid, player, locked_piece) ==
    IF locked_piece # None THEN <<locked_piece>> ELSE GetPlayerPieces(grid, player)

\* get_moves without the forced-capture rule: every destination is returned.
GetMovesNoForce(grid, player, locked_piece) ==
    LET Chosen(capturing_moves, all_moves) ==
            [capturing |-> capturing_moves # <<>>, moves |-> all_moves]
    IN  Chosen(MoveItems(grid, PiecesToMove(grid, player, locked_piece), TRUE),
               MoveItems(grid, PiecesToMove(grid, player, locked_piece), FALSE))

\* computer.get_moves: [capturing, moves].
GetMoves(grid, player, locked_piece) ==
    LET Chosen(capturing_moves, all_moves) ==
            IF capturing_moves # <<>>
            THEN [capturing |-> TRUE, moves |-> capturing_moves]
            ELSE [capturing |-> FALSE,
                  moves |-> IF locked_piece # None THEN <<>> ELSE all_moves]
    IN  Chosen(MoveItems(grid, PiecesToMove(grid, player, locked_piece), TRUE),
               MoveItems(grid, PiecesToMove(grid, player, locked_piece), FALSE))

\* An expander that never crowns.
CrownNever(grid, player, move) == grid

\* The crowning of computer.py lines 59-60 and 99-100: a piece of player
\* that stands on row 0 or 7 and is not a king becomes that player's king.
Crown(grid, player, move) ==
    IF move[2] \in {0, 7} /\ ~PieceKing(Get(grid, move))
    THEN Set(grid, move, IF player = "ONE" THEN "a" ELSE "b")
    ELSE grid

RECURSIVE GetSubsequentMoves(_, _, _)

\* get_subsequent_moves that yields after the first capture, without
\* looking for a continuation.
GetSubsequentMovesStop(board, player, compound_move) ==
    LET n == Len(compound_move)
    IN  << [move |-> compound_move,
            board |-> Crown(Move(board, compound_move[n - 1], compound_move[n]),
                            player, compound_move[n])] >>

\* computer.get_subsequent_moves: the yielded [move, board] records.
GetSubsequentMoves(board, player, compound_move) ==
    LET n == Len(compound_move)
        After(next_board) ==
            LET Yielded(r) ==
                    IF ~r.capturing
                    THEN << [move |-> compound_move,
                             board |-> Crown(next_board, player, compound_move[n])] >>
                    ELSE Flatten(MapSeq(LAMBDA next_move :
                             GetSubsequentMoves(next_board, player,
                                                Append(compound_move, next_move)),
                             r.moves[1][2]))
            IN  Yielded(GetMoves(next_board, player, compound_move[n]))
    IN  After(Move(board, compound_move[n - 1], compound_move[n]))

\* The body of the loops of get_compound_moves for one piece and move.
CompoundMovesOf(board, player, capturing, piece, move) ==
    IF capturing THEN GetSubsequentMoves(board, player, <<piece, move>>)
    ELSE << [move |-> <<piece, move>>,
             board |-> Crown(Move(board, piece, move), player, move)] >>

\* computer.get_compound_moves: the yielded [move, board] records.
GetCompoundMoves(board, player) ==
    LET Yielded(r) ==
            Flatten(MapSeq(LAMBDA item :
                Flatten(MapSeq(LAMBDA move :
                    CompoundMovesOf(board, player, r.capturing, item[1], move),
                    item[2])),
                r.moves))
    IN  Yielded(GetMoves(board, player, None))

(***************************************************************************)
(* computer.py: the search.  The module-level dict cache is threaded       *)
(* through the recursion: minimax takes the cache it finds and returns the *)
(* cache it leaves, a function from grids to scores.  The counter cached   *)
(* is only printed and is left out.                                        *)
(***************************************************************************)
\* cache = {}
EmptyCache == [g \in {} |-> 0]

\* A cache that stores nothing.
CachePutNever(cache, grid, score) == cache

\* cache[board.grid] = score
CachePut(cache, grid, score) == [g \in (DOMAIN cache) \cup {grid} |->
                                    IF g = grid THEN score ELSE cache[g]]

\* next(board.get_player_pieces(player), False) is falsy
NoPieces(board, player) == GetPlayerPieces(board, player) = <<>>

\* computer.minimax: [score, move, cache].  SearchLoop is the for loop of
\* lines 160-166 (maximizing) and 170-176 (minimizing) from child k on.
RECURSIVE Minimax(_, _, _, _, _, _, _)
RECURSIVE SearchLoop(_, _, _, _, _, _, _, _, _)
SearchLoop(children, k, player, depth, maximizing, alpha, beta, best, cache) ==
    IF k > Len(children)
    THEN [score |-> best[1], move |-> best[2], cache |-> cache]
    ELSE LET Iteration(r) ==
                 LET score == r.score
                     Rest(best2) ==
                         IF IF maximizing THEN score >= beta ELSE score <= alpha
                         THEN [score |-> best2[1], move |-> best2[2],
                               cache |-> r.cache]
                         ELSE SearchLoop(children, k + 1, player, depth, maximizing,
                                 IF maximizing THEN Max(alpha, score) ELSE alpha,
                                 IF maximizing THEN beta ELSE Min(beta, score),
                                 best2, r.cache)
                 IN  Rest(IF IF maximizing THEN score > best[1] ELSE score < best[1]
                          THEN <<score, children[k].move>> ELSE best)
         IN  Iteration(Minimax(children[k].board, player, depth - 1, ~maximizing,
                               alpha, beta, cache))

Minimax(board, player, depth, maximizing, alpha, beta, cache) ==
    IF board \in DOMAIN cache
    THEN [score |-> cache[board], move |-> <<>>, cache |-> cache]
    ELSE IF NoPieces(board, player)
    THEN [score |-> -1000 - depth, move |-> <<>>, cache |-> cache]
    ELSE IF NoPieces(board, Other(player))
    THEN [score |-> 1000 + depth, move |-> <<>>, cache |-> cache]
    ELSE IF depth = 0
    THEN LET Leaf(score) == [score |-> score, move |-> <<>>,
                             cache |-> CachePut(cache, board, score)]
         IN  Leaf(Score(board, player))
    ELSE IF maximizing
    THEN SearchLoop(GetCompoundMoves(board, player), 1, player, depth, TRUE,
                    alpha, beta, <<-2000 + depth, <<>> >>, cache)
    ELSE SearchLoop(GetCompoundMoves(board, Other(player)), 1, player, depth, FALSE,
                    alpha, beta, <<2000 - depth, <<>> >>, cache)

\* Steps that all start from the first square of the sequence.
StepsFromOrigin(moves) == [k \in 1..(IF Len(moves) = 0 THEN 0 ELSE Len(moves) - 1) |->
                              <<moves[1], moves[k + 1]>>]

\* list(zip(moves, moves[1:]))
Steps(moves) == [k \in 1..(IF Len(moves) = 0 THEN 0 ELSE Len(moves) - 1) |->
                    <<moves[k], moves[k + 1]>>]

\* run without lines 225-226: the search starts from the cache it finds.
RunKeepCache(board, player, search_depth, old_cache) ==
    LET Data(r) == [compound_move |-> Steps(r.move), achievable_score |-> r.score,
                    moves |-> r.move, cache |-> r.cache]
    IN  Data(Minimax(board, player, search_depth, TRUE, -Inf, Inf, old_cache))

\* computer.run, lines 224-238 and 251: the cache is emptied, minimax is
\* called with the current depth and the defaults maximizing = True,
\* alpha = -inf, beta = +inf.  old_cache is the cache run finds.  The result
\* is the ComputerData (compute_time left out) and the cache run leaves.
Run(board, player, search_depth, old_cache) ==
    LET Data(r) == [compound_move |-> Steps(r.move), achievable_score |-> r.score,
                    moves |-> r.move, cache |-> r.cache]
    IN  Data(Minimax(board, player, search_depth, TRUE, -Inf, Inf, EmptyCache))

(***************************************************************************)
(* checkers.py: the Game.  A game is the record of the fields of the Game  *)
(* object that the turn logic reads or writes; animating is                *)
(* Drawer.animating (animation.origin is not None).                        *)
(***************************************************************************)
\* self.moves[pos] of a defaultdict(list), as a read of the stored value.
Lookup(moves, pos) ==
    LET Value(hits) == IF hits = <<>> THEN <<>> ELSE hits[1][2]
    IN  Value(SelectSeq(moves, LAMBDA item : item[1] = pos))

\* The side effect of self.moves[pos] on a defaultdict(list): a missing
\* key is inserted with an empty list.
Touch(moves, pos) ==
    IF \E k \in 1..Len(moves) : moves[k][1] = pos THEN moves
    ELSE Append(moves, <<pos, <<>> >>)

\* generate_moves that looks at every piece of the side, locked piece or not.
GenerateMovesUnlocked(board, active_player, locked_piece) ==
    LET Stored(capturing_moves, all_moves) ==
            IF capturing_moves # <<>> THEN capturing_moves
            ELSE IF locked_piece # None THEN <<>> ELSE all_moves
    IN  Stored(MoveItems(board, GetPlayerPieces(board, active_player), TRUE),
               MoveItems(board, GetPlayerPieces(board, active_player), FALSE))

\* Game.generate_moves: the value stored in self.moves.
GenerateMoves(board, active_player, locked_piece) ==
    LET Stored(capturing_moves, all_moves) ==
            IF capturing_moves # <<>> THEN capturing_moves
            ELSE IF locked_piece # None THEN <<>> ELSE all_moves
    IN  Stored(MoveItems(board, PiecesToMove(board, active_player, locked_piece), TRUE),
               MoveItems(board, PiecesToMove(board, active_player, locked_piece), FALSE))

\* check_win that only looks at the pieces of the side to move.
CheckWinPiecesOnly(g) ==
    IF NoPieces(g.board, g.active_player)
    THEN [g EXCEPT !.victor = Other(g.active_player)]
    ELSE g

\* Game.check_win
CheckWin(g) ==
    IF NoPieces(g.board, g.active_player) \/ g.moves = <<>>
    THEN [g EXCEPT !.victor = Other(g.active_player)]
    ELSE g

\* next_turn without its call of generate_moves: the map of the turn before
\* stays, and check_win reads it.
NextTurnStaleMoves(g) ==
    CheckWin([g EXCEPT !.active_player = Other(g.active_player),
                       !.selected_piece = None,
                       !.locked_piece = None,
                       !.refresh = TRUE])

\* next_turn that keeps the locked piece.
NextTurnKeepsLock(g) ==
    LET player == Other(g.active_player)
    IN  CheckWin([g EXCEPT !.active_player = player,
                           !.selected_piece = None,
                           !.refresh = TRUE,
                           !.moves = GenerateMoves(g.board, player, None)])

\* Game.next_turn
NextTurn(g) ==
    LET player == Other(g.active_player)
    IN  CheckWin([g EXCEPT !.active_player = player,
                           !.selected_piece = None,
                           !.locked_piece = None,
                           !.refresh = TRUE,
                           !.moves = GenerateMoves(g.board, player, None)])

\* Game.move_piece
MovePiece(g, pos, pos2) ==
    LET After(piece, moved) ==
            IF ~PieceKing(piece) /\ pos2[2] \in {0, Count - 1}
            THEN NextTurn([moved EXCEPT !.board =
                     Set(moved.board, pos2,
                         IF PiecePlayer(piece) = "ONE" THEN "a" ELSE "b")])
            ELSE IF Distance(pos, pos2) = 2
            THEN LET Locked(locked) ==
                         IF locked.moves = <<>> THEN NextTurn(locked) ELSE locked
                 IN  Locked([moved EXCEPT
                         !.locked_piece = pos2,
                         !.moves = GenerateMoves(moved.board, moved.active_player, pos2),
                         !.selected_piece = pos2])
            ELSE NextTurn(moved)
    IN  After(Get(g.board, pos),
              [g EXCEPT !.board = Move(g.board, pos, pos2), !.animating = TRUE])

\* Game.handle_click, for a click that falls on the tile pos.
HandleClick(g, pos) ==
    LET Own(t) == HasPiece(t) /\ PiecePlayer(t) = g.active_player
                    /\ g.active_player = "ONE" /\ pos # g.selected_piece
        Branch(own) ==
            LET Second(g1) ==
                    LET Third(g2) ==
                            IF g.selected_piece # None
                               /\ pos \in Range(Lookup(g.moves, g.selected_piece))
                            THEN MovePiece(g2, g.selected_piece, pos)
                            ELSE [g2 EXCEPT !.selected_piece = None]
                    IN  IF own /\ Lookup(g.moves, pos) # <<>>
                        THEN [g1 EXCEPT !.selected_piece = pos]
                        ELSE Third(IF g.selected_piece # None
                                   THEN [g1 EXCEPT !.moves =
                                            Touch(g1.moves, g.selected_piece)]
                                   ELSE g1)
            IN  Second(IF own THEN [g EXCEPT !.moves = Touch(g.moves, pos)] ELSE g)
        Clicked(done) == [done EXCEPT !.refresh = TRUE]
    IN  Clicked(Branch(Own(Get(g.board, pos))))

\* Drawer.draw: draw_piece reads game.get_moves(pos) for every piece on
\* the board, the pieces of Player.ONE first.
RECURSIVE TouchAll(_, _)
TouchAll(moves, tiles) ==
    IF tiles = <<>> THEN moves
    ELSE TouchAll(Touch(moves, Head(tiles)), Tail(tiles))

DrawMoves(g) ==
    TouchAll(TouchAll(g.moves, GetPlayerPieces(g.board, "ONE")),
             GetPlayerPieces(g.board, "TWO"))

(***************************************************************************)
(* Bounds and inputs                                                       *)
(***************************************************************************)
\* The turns (calls of Game.next_turn) a modelled game runs for.
MaxTurns == 4

\* The largest depth the depth controller hands to a search of the Game.
GameMaxDepth == 3

\* A grid from its eight rows of four playable cells, left to right; the
\* playable cells of row y are the columns x with x + y odd.
MakeGrid(rows) ==
    [i \in 1..(Count * Count) |->
        LET x == (i - 1) % Count
            y == (i - 1) \div Count
        IN  IF (x + y) % 2 = 0 THEN " " ELSE rows[y + 1][(x \div 2) + 1]]

E4 == <<".", ".", ".", ".">>

\* tests/game_test.py BOARD1: Player.ONE captures the last Player.TWO man.
BoardGameTest ==
    MakeGrid(<<E4, <<".", "2", "1", ".">>, <<".", "1", ".", ".">>, E4, E4, E4, E4, E4>>)

\* tests/ai_test.py BOARD1: Player.TWO double jump.
BoardAiTest ==
    MakeGrid(<<<<".", "2", ".", ".">>, <<".", ".", "1", ".">>, E4,
               <<".", ".", "1", ".">>, E4, E4, E4, E4>>)

\* A man of either side that can crown in the middle of a capture chain,
\* on a square from which a king could capture on: the Player.TWO man on
\* (2,3) over (3,4) and (3,6) to (2,7), the Player.ONE man on (5,4) over
\* (4,3) and (4,1) to (5,0).
BoardCrownChain ==
    MakeGrid(<<E4, <<".", ".", "2", "2">>, E4, <<".", "2", "2", ".">>,
               <<".", "1", "1", ".">>, E4, <<"1", "1", ".", ".">>, E4>>)

\* Kings of both sides next to men.
BoardKings ==
    MakeGrid(<<E4, <<".", "a", ".", ".">>, <<".", "2", ".", ".">>, E4,
               <<".", ".", "1", ".">>, <<".", "b", ".", ".">>, E4, E4>>)

\* A Player.TWO man whose only move leads to a position in which it is
\* blocked whatever Player.ONE answers.
BoardBlocked ==
    MakeGrid(<<E4, E4, E4, E4, <<"2", ".", ".", ".">>, <<".", "1", ".", ".">>,
               <<"1", "1", ".", ".">>, <<".", "1", ".", ".">>>>)

\* One king a side.
BoardTwoKings ==
    MakeGrid(<<<<".", "a", ".", ".">>, E4, E4, <<".", ".", "b", ".">>, E4, E4, E4, E4>>)

\* A Player.TWO man on (3,0) between Player.ONE men on (2,1) and (4,1), the
\* squares beyond them empty.
BoardForkedJump ==
    MakeGrid(<<<<".", "2", ".", ".">>, <<".", "1", "1", ".">>, E4, E4, E4, E4, E4, E4>>)

\* Player.ONE men on (2,5) and (6,5) next to Player.TWO men: (1,4) can be
\* jumped, (3,4) has the man on (4,3) behind it, (7,4) has the edge of the
\* board behind it.
BoardRefusedJumps ==
    MakeGrid(<<E4, E4, E4, <<".", ".", "2", ".">>, <<"2", "2", ".", "2">>,
               <<".", "1", ".", "1">>, E4, E4>>)

GameBoards == {BoardGameTest, BoardAiTest, BoardCrownChain, BoardKings, BoardBlocked}

\* A Player.ONE man on (0,5) that cannot move: the Player.TWO man on (1,4)
\* is in its way, and the square behind that man, (2,3), is taken.
BoardStuck ==
    MakeGrid(<<E4, E4, E4, <<".", "2", ".", ".">>, <<"2", ".", ".", ".">>,
               <<"1", ".", ".", ".">>, E4, E4>>)

\* A single Player.ONE man, and no piece at all.
BoardLoneMan == MakeGrid(<<E4, E4, E4, E4, E4, <<".", "1", ".", ".">>, E4, E4>>)
BoardEmpty == MakeGrid(<<E4, E4, E4, E4, E4, E4, E4, E4>>)

\* The boards of the search sessions.
SearchBoards ==
    {BoardAiTest, BoardKings, BoardBlocked, BoardTwoKings, BoardStuck,
     BoardLoneMan, BoardEmpty}

\* The largest depth the depth controller hands to a search of a session,
\* the largest depth searched on a board with more than one piece a side,
\* and the largest depth of a direct minimax call.
SearchMaxDepth == 5
DenseMaxDepth == 3
MinimaxMaxDepth == 1

\* The calls a search session makes.
MaxCalls == 3

\* The boards position play starts from, and the turns it runs for.
PlayBoards == {StartGrid, BoardGameTest, BoardAiTest, BoardForkedJump,
               BoardCrownChain, BoardKings, BoardBlocked, BoardRefusedJumps}
MaxPlies == 2

PieceCount(b) == Len(GetPlayerPieces(b, "ONE")) + Len(GetPlayerPieces(b, "TWO"))

DepthLimit(b) == IF PieceCount(b) <= 2 THEN SearchMaxDepth ELSE DenseMaxDepth

(***************************************************************************)
(* State                                                                   *)
(***************************************************************************)
VARIABLES
    board,           \* Game.board.grid; the board of a search session
    active_player,   \* Game.active_player
    selected_piece,  \* Game.selected_piece
    locked_piece,    \* Game.locked_piece
    moves,           \* Game.moves
    victor,          \* Game.victor
    refresh,         \* Game.refresh
    animating,       \* Game.drawer.animating
    computer_data,   \* Game.computer_data
    cache,           \* computer.cache
    depth,           \* computer.depth
    samples,         \* len(computer.samples), counted up to 2
    turns,           \* the number of next_turn calls so far
    plan,            \* the last search result and the board it evaluated
    last_move,       \* the last move_piece call: its arguments, the piece it
                     \* moved and the board it found
    calls,           \* the number of calls of a search session so far
    call,            \* the last call of a search session and its result
    memo,            \* the first call of a search session and its result
    heap,            \* the Board objects of an expansion and their grids
    frames,          \* the calls of an expansion that have not returned
    yielded,         \* what get_compound_moves yielded during an expansion
    returned         \* the score the last minimax call returned

vars == <<board, active_player, selected_piece, locked_piece, moves, victor,
          refresh, animating, computer_data, cache, depth, samples, turns,
          plan, last_move, calls, call, memo, heap, frames, yielded, returned>>

gameVars == <<board, active_player, selected_piece, locked_piece, moves,
              victor, refresh, animating>>

searchVars == <<cache, depth, samples>>

expandVars == <<heap, frames, yielded, returned>>

\* No expansion is under way.
ExpandIdle == heap = <<>> /\ frames = <<>> /\ yielded = <<>> /\ returned = None

\* The Game fields as a record, and the assignment of a record to them.
GameRec ==
    [board |-> board, active_player |-> active_player,
     selected_piece |-> selected_piece, locked_piece |-> locked_piece,
     moves |-> moves, victor |-> victor, refresh |-> refresh,
     animating |-> animating]

SetGame(g) ==
    /\ board' = g.board
    /\ active_player' = g.active_player
    /\ selected_piece' = g.selected_piece
    /\ locked_piece' = g.locked_piece
    /\ moves' = g.moves
    /\ victor' = g.victor
    /\ refresh' = g.refresh
    /\ animating' = g.animating

GameIs(g) ==
    /\ board = g.board
    /\ active_player = g.active_player
    /\ selected_piece = g.selected_piece
    /\ locked_piece = g.locked_piece
    /\ moves = g.moves
    /\ victor = g.victor
    /\ refresh = g.refresh
    /\ animating = g.animating

\* No call made yet.
NoCall == [op |-> "none"]

\* A game at the start of a turn: Game.__init__ for the side to move on a
\* board of GameBoards, followed by the win check next_turn makes.
Init ==
    /\ \E b \in GameBoards, p \in {"ONE", "TWO"} :
          GameIs(CheckWin([board |-> b, active_player |-> p,
                           selected_piece |-> None, locked_piece |-> None,
                           moves |-> GenerateMoves(b, p, None),
                           victor |-> NoPlayer, refresh |-> TRUE,
                           animating |-> FALSE]))
    /\ computer_data = [compound_move |-> <<>>, achievable_score |-> 0,
                        search_depth |-> MINIMUM_DEPTH]
    /\ cache = EmptyCache
    /\ depth = MINIMUM_DEPTH
    /\ samples = 0
    /\ turns = 0
    /\ plan = NoCall
    /\ last_move = NoCall
    /\ calls = 0
    /\ call = NoCall
    /\ memo = NoCall
    /\ ExpandIdle

(***************************************************************************)
(* Actions of the Game                                                     *)
(***************************************************************************)
\* The program runs until an error leaves Game.update.
Running == plan.op # "raise"

\* Game.draw, when it draws.  The running animation ends on the draw call
\* in which its progress has reached 1 (finish).
Draw ==
    /\ Running
    /\ refresh \/ animating
    /\ \E finish \in BOOLEAN :
          /\ finish => animating
          /\ animating' = (animating /\ ~finish)
    /\ refresh' = FALSE
    /\ moves' = DrawMoves(GameRec)
    /\ UNCHANGED <<expandVars, board, active_player, selected_piece, locked_piece, victor,
                   computer_data, cache, depth, samples, turns, plan, last_move, calls, call, memo>>

\* The turns counted after a step to the game g.
TurnsAfter(g) == IF g.active_player # active_player THEN turns + 1 ELSE turns

\* update handling a left click without the test of the victor, line 731.
UpdateClickAfterVictor ==
    /\ Running
    /\ active_player = "ONE"
    /\ turns < MaxTurns
    /\ \E pos \in Range(AllTiles) :
          LET To(g) ==
                  /\ SetGame(g)
                  /\ turns' = TurnsAfter(g)
                  /\ last_move' = IF g.board # board
                                   THEN [op |-> "move_piece", pos |-> selected_piece,
                                         pos2 |-> pos,
                                         piece |-> Get(board, selected_piece),
                                         before |-> board]
                                   ELSE last_move
          IN  To(HandleClick(GameRec, pos))
    /\ UNCHANGED <<expandVars, computer_data, cache, depth, samples, plan, calls, call, memo>>

\* Game.update with a left click on the tile pos in the event queue.
UpdateClick ==
    /\ Running
    /\ active_player = "ONE" /\ victor = NoPlayer
    /\ turns < MaxTurns
    /\ \E pos \in Range(AllTiles) :
          LET To(g) ==
                  /\ SetGame(g)
                  /\ turns' = TurnsAfter(g)
                  /\ last_move' = IF g.board # board
                                   THEN [op |-> "move_piece", pos |-> selected_piece,
                                         pos2 |-> pos,
                                         piece |-> Get(board, selected_piece),
                                         before |-> board]
                                   ELSE last_move
          IN  To(HandleClick(GameRec, pos))
    /\ UNCHANGED <<expandVars, computer_data, cache, depth, samples, plan, calls, call, memo>>

\* env.TARGET_TIME, its default.
TARGET_TIME == 1500

\* The outcomes of curve_fit in run: it raises, or it returns the factor
\* num / den.  den is positive.
CurveFitRaises == [raised |-> TRUE, num |-> 0, den |-> 1]
Factor(num, den) == [raised |-> FALSE, num |-> num, den |-> den]

\* What the statements after samples.append raise, lines 243-245: nothing
\* when they run through; curve_fit's error; math.log's ValueError for a
\* factor that is not positive and its ZeroDivisionError for the factor 1.
FitError(fit) ==
    IF fit.raised THEN "RuntimeError"
    ELSE IF fit.num <= 0 THEN "ValueError"
    ELSE IF fit.num = fit.den THEN "ZeroDivisionError"
    ELSE "none"

\* The largest k with (num / den) ^ k <= tn / td, for num / den > 1.
RECURSIVE LogFloor(_, _, _, _)
LogFloor(tn, td, num, den) ==
    IF tn * den < num * td THEN 0
    ELSE 1 + LogFloor(tn * den, td * num, num, den)

\* int(math.log(TARGET_TIME, factor)) for a positive factor other than 1:
\* int truncates towards zero, and the logarithm to a base below 1 is the
\* negated logarithm to the inverse base.
LogInt(fit) ==
    IF fit.num > fit.den THEN LogFloor(TARGET_TIME, 1, fit.num, fit.den)
    ELSE -LogFloor(TARGET_TIME, 1, fit.den, fit.num)

\* Line 245 without the clamp to MINIMUM_DEPTH.
RefitUnclamped(fit) == LogInt(fit)

\* Line 245: depth = max(MINIMUM_DEPTH, int(math.log(TARGET_TIME, factor)))
Refit(fit) == Max(MINIMUM_DEPTH, LogInt(fit))

\* The outcomes of the fit the model draws from: an error, factors that are
\* negative, zero, one and below one, and factors above one for the depths
\* 0 to 6 before the clamp.
Fits ==
    {CurveFitRaises, Factor(-1, 1), Factor(0, 1), Factor(1, 1), Factor(1, 2),
     Factor(2000, 1), Factor(39, 1), Factor(38, 1), Factor(11, 1),
     Factor(6, 1), Factor(4, 1), Factor(3, 1)}

\* No fit: run has a single sample, line 243.
NoFit == [raised |-> FALSE, num |-> 0, den |-> 0]

\* The outcomes after which run returns, lines 243-245: no fit on the first
\* sample, else a fit that raises nothing, here with a depth up to maxDepth.
Refits(maxDepth) ==
    IF samples + 1 > 1
    THEN {fit \in Fits : FitError(fit) = "none" /\ Refit(fit) <= maxDepth}
    ELSE {NoFit}

\* The outcomes after which run raises: a second sample and a failing fit.
FailedFits ==
    IF samples + 1 > 1 THEN {fit \in Fits : FitError(fit) # "none"} ELSE {}

\* The depth run leaves, lines 243-245.
NextDepth(fit) == IF fit = NoFit THEN depth ELSE Refit(fit)

\* The board get_compound_moves yields for a compound move, None for [].
BoardOf(b, player, compound_move) ==
    LET First(hits) == IF hits = <<>> THEN None ELSE hits[1].board
    IN  First(SelectSeq(GetCompoundMoves(b, player),
                        LAMBDA y : y.move = compound_move))

\* Game.update on the computer's turn with no move left to play: run
\* returns.
UpdateRun ==
    /\ Running
    /\ active_player = "TWO" /\ victor = NoPlayer /\ ~animating
    /\ computer_data.compound_move = <<>>
    /\ turns < MaxTurns
    /\ LET Returned(r) ==
               /\ cache' = r.cache
               /\ samples' = Min(samples + 1, 2)
               /\ \E fit \in Refits(GameMaxDepth) : depth' = NextDepth(fit)
               /\ computer_data' = [compound_move |-> r.compound_move,
                                    achievable_score |-> r.achievable_score,
                                    search_depth |-> depth']
               /\ plan' = [op |-> "run", moves |-> r.moves, from |-> board,
                           board |-> BoardOf(board, active_player, r.moves)]
       IN  Returned(Run(board, active_player, depth, cache))
    /\ UNCHANGED <<expandVars, gameVars, turns, last_move, calls, call, memo>>

\* Game.update on the computer's turn with no move left to play: run
\* raises after its search, and the error leaves update.
UpdateRunRaises ==
    /\ Running
    /\ active_player = "TWO" /\ victor = NoPlayer /\ ~animating
    /\ computer_data.compound_move = <<>>
    /\ turns < MaxTurns
    /\ FailedFits # {}
    /\ \E fit \in FailedFits :
          plan' = [op |-> "raise", error |-> FitError(fit), from |-> board]
    /\ cache' = Run(board, active_player, depth, cache).cache
    /\ samples' = Min(samples + 1, 2)
    /\ UNCHANGED <<expandVars, gameVars, computer_data, depth, turns, last_move,
                   calls, call, memo>>

\* Game.update on the computer's turn with a move left: its next step.
UpdateStep ==
    /\ Running
    /\ active_player = "TWO" /\ victor = NoPlayer /\ ~animating
    /\ computer_data.compound_move # <<>>
    /\ LET step == Head(computer_data.compound_move)
           To(g) == SetGame(g) /\ turns' = TurnsAfter(g)
       IN  /\ To(MovePiece(GameRec, step[1], step[2]))
           /\ last_move' = [op |-> "move_piece", pos |-> step[1], pos2 |-> step[2],
                             piece |-> Get(board, step[1]), before |-> board]
    /\ computer_data' = [computer_data EXCEPT !.compound_move = Tail(@)]
    /\ UNCHANGED <<expandVars, cache, depth, samples, plan, calls, call, memo>>

Next == Draw \/ UpdateClick \/ UpdateRun \/ UpdateRunRaises \/ UpdateStep

Spec == Init /\ [][Next]_vars

(***************************************************************************)
(* Search sessions: the functions of computer.py called directly on a      *)
(* board, as tests/ai_test.py calls run.  The module globals cache, depth  *)
(* and samples live on from call to call.                                  *)
(***************************************************************************)
InitSearch ==
    /\ board \in SearchBoards
    /\ active_player = "ONE"
    /\ selected_piece = None
    /\ locked_piece = None
    /\ moves = <<>>
    /\ victor = NoPlayer
    /\ refresh = FALSE
    /\ animating = FALSE
    /\ computer_data = [compound_move |-> <<>>, achievable_score |-> 0,
                        search_depth |-> MINIMUM_DEPTH]
    /\ cache = EmptyCache
    /\ depth = MINIMUM_DEPTH
    /\ samples = 0
    /\ turns = 0
    /\ plan = NoCall
    /\ last_move = NoCall
    /\ calls = 0
    /\ call = NoCall
    /\ memo = NoCall
    /\ ExpandIdle

\* run(Board(board), player) returns.
CallRun ==
    /\ calls < MaxCalls
    /\ depth <= DepthLimit(board)
    /\ \E player \in {"ONE", "TWO"} :
          LET Returned(r) ==
                  /\ cache' = r.cache
                  /\ \E fit \in Refits(SearchMaxDepth) :
                        /\ depth' = NextDepth(fit)
                        /\ call' = [op |-> "run", player |-> player,
                                    depth |-> depth,
                                    score |-> r.achievable_score,
                                    moves |-> r.moves,
                                    compound_move |-> r.compound_move,
                                    fit |-> fit, error |-> "none",
                                    search_depth |-> depth']
                  /\ memo' = IF memo = NoCall THEN call' ELSE memo
          IN  Returned(Run(board, player, depth, cache))
    /\ samples' = Min(samples + 1, 2)
    /\ calls' = calls + 1
    /\ UNCHANGED <<expandVars, gameVars, computer_data, turns, plan, last_move>>

\* run(Board(board), player) raises: the search is done and its sample is
\* appended, the fit or the logarithm fails, and no ComputerData is returned.
CallRunRaises ==
    /\ calls < MaxCalls
    /\ depth <= DepthLimit(board)
    /\ FailedFits # {}
    /\ \E player \in {"ONE", "TWO"} :
          /\ cache' = Run(board, player, depth, cache).cache
          /\ \E fit \in FailedFits :
                call' = [op |-> "raise", player |-> player, depth |-> depth,
                         fit |-> fit, error |-> FitError(fit)]
          /\ memo' = IF memo = NoCall THEN call' ELSE memo
    /\ samples' = Min(samples + 1, 2)
    /\ calls' = calls + 1
    /\ UNCHANGED <<expandVars, gameVars, computer_data, depth, turns, plan,
                   last_move>>

\* minimax(Board(board), player, d)
CallMinimax ==
    /\ calls < MaxCalls
    /\ \E player \in {"ONE", "TWO"}, d \in 0..MinimaxMaxDepth :
          LET Returned(r) ==
                  /\ cache' = r.cache
                  /\ call' = [op |-> "minimax", player |-> player, depth |-> d,
                              score |-> r.score, moves |-> r.move,
                              compound_move |-> Steps(r.move)]
                  /\ memo' = IF memo = NoCall THEN call' ELSE memo
          IN  Returned(Minimax(board, player, d, TRUE, -Inf, Inf, cache))
    /\ calls' = calls + 1
    /\ UNCHANGED <<expandVars, gameVars, computer_data, depth, samples, turns, plan, last_move>>

NextSearch == CallRun \/ CallRunRaises \/ CallMinimax

SpecSearch == InitSearch /\ [][NextSearch]_vars

(***************************************************************************)
(* Position play: the Game driven without the user interface and the       *)
(* search, as tests/game_test.py drives it.  A side plays a move of        *)
(* Game.moves with Game.move_piece, or a whole compound move of            *)
(* get_compound_moves, after which the turn passes as in Game.next_turn.   *)
(***************************************************************************)
InitPlay ==
    /\ \E b \in PlayBoards, p \in {"ONE", "TWO"} :
          GameIs(CheckWin([board |-> b, active_player |-> p,
                           selected_piece |-> None, locked_piece |-> None,
                           moves |-> GenerateMoves(b, p, None),
                           victor |-> NoPlayer, refresh |-> TRUE,
                           animating |-> FALSE]))
    /\ computer_data = [compound_move |-> <<>>, achievable_score |-> 0,
                        search_depth |-> MINIMUM_DEPTH]
    /\ cache = EmptyCache
    /\ depth = MINIMUM_DEPTH
    /\ samples = 0
    /\ turns = 0
    /\ plan = NoCall
    /\ last_move = NoCall
    /\ calls = 0
    /\ call = NoCall
    /\ memo = NoCall
    /\ ExpandIdle

\* Game.move_piece(pos, pos2) for a move of Game.moves.
PlayStep ==
    /\ victor = NoPlayer
    /\ turns < MaxPlies
    /\ \E item \in Range(moves) : \E pos2 \in Range(item[2]) :
          LET To(g) == SetGame(g) /\ turns' = TurnsAfter(g)
          IN  /\ To(MovePiece(GameRec, item[1], pos2))
              /\ last_move' = [op |-> "move_piece", pos |-> item[1], pos2 |-> pos2,
                                piece |-> Get(board, item[1]), before |-> board]
    /\ UNCHANGED <<expandVars, computer_data, cache, depth, samples, plan, calls, call, memo>>

\* A compound move of get_compound_moves played as the whole turn of the
\* side to move: the yielded board becomes the board and the turn passes.
PlayCompound ==
    /\ victor = NoPlayer /\ locked_piece = None
    /\ turns < MaxPlies
    /\ \E y \in Range(GetCompoundMoves(board, active_player)) :
          /\ SetGame(NextTurn([GameRec EXCEPT !.board = y.board]))
          /\ last_move' = [op |-> "compound_move", move |-> y.move, before |-> board]
    /\ turns' = turns + 1
    /\ UNCHANGED <<expandVars, computer_data, cache, depth, samples, plan, calls, call, memo>>

NextPlay == PlayStep \/ PlayCompound

SpecPlay == InitPlay /\ [][NextPlay]_vars

(***************************************************************************)
(* An expansion: minimax and the generators get_compound_moves and         *)
(* get_subsequent_moves step by step, on Board objects.  heap[id] is the   *)
(* grid of the Board object id; frames is the stack of the calls that have *)
(* not returned, a suspended generator below the minimax call its consumer *)
(* made for the board it yielded.                                          *)
(***************************************************************************)
\* Board.copy sharing the object instead of cloning it.
BoardCopyAlias(h, id) == [heap |-> h, board |-> id]

\* Board.copy: Board(self.grid), a new object with the grid of the old one.
BoardCopy(h, id) == [heap |-> Append(h, h[id]), board |-> Len(h) + 1]

\* The call minimax(board, player, depth, maximizing, alpha, beta) at its
\* first line; given is the grid of the board at the call, and seen will
\* list the compound moves its loop has got a score for, with the scores.
MinimaxFrame(h, id, player, d, maximizing, alpha, beta) ==
    [kind |-> "minimax", phase |-> "enter", board |-> id, given |-> h[id],
     player |-> player, depth |-> d, maximizing |-> maximizing,
     alpha |-> alpha, beta |-> beta, best |-> <<0, <<>> >>,
     capturing |-> FALSE, items |-> <<>>, move |-> <<>>, seen |-> <<>>]

\* The generator get_compound_moves(board, player) inside its loops; items
\* are the [piece, move] pairs the loops of lines 90-91 still have to visit.
CompoundFrame(h, id, player, r) ==
    [kind |-> "compound", phase |-> "loop", board |-> id, given |-> h[id],
     player |-> player, depth |-> 0, maximizing |-> FALSE,
     alpha |-> 0, beta |-> 0, best |-> <<0, <<>> >>,
     capturing |-> r.capturing,
     items |-> Flatten(MapSeq(LAMBDA item :
                   MapSeq(LAMBDA move : <<item[1], move>>, item[2]), r.moves)),
     move |-> <<>>, seen |-> <<>>]

\* The generator get_subsequent_moves(next_board, player, compound_move)
\* before its first line.
SubsequentFrame(id, player, compound_move) ==
    [kind |-> "subsequent", phase |-> "enter", board |-> id, given |-> <<>>,
     player |-> player, depth |-> 0, maximizing |-> FALSE,
     alpha |-> 0, beta |-> 0, best |-> <<0, <<>> >>,
     capturing |-> FALSE, items |-> <<>>, move |-> compound_move,
     seen |-> <<>>]

\* The boards and depths of the expansions.
ExpandBoards == {BoardGameTest, BoardAiTest, BoardForkedJump, BoardCrownChain,
                 BoardKings, BoardBlocked}
ExpandMaxDepth == 3

InitExpand ==
    /\ board \in ExpandBoards
    /\ active_player \in {"ONE", "TWO"}
    /\ depth \in 1..ExpandMaxDepth
    /\ heap = <<board>>
    /\ frames = <<MinimaxFrame(heap, 1, active_player, depth, TRUE, -Inf, Inf)>>
    /\ yielded = <<>>
    /\ returned = <<>>
    /\ cache = EmptyCache
    /\ selected_piece = None
    /\ locked_piece = None
    /\ moves = <<>>
    /\ victor = NoPlayer
    /\ refresh = FALSE
    /\ animating = FALSE
    /\ computer_data = [compound_move |-> <<>>, achievable_score |-> 0,
                        search_depth |-> MINIMUM_DEPTH]
    /\ samples = 0
    /\ turns = 0
    /\ plan = NoCall
    /\ last_move = NoCall
    /\ calls = 0
    /\ call = NoCall
    /\ memo = NoCall

\* The innermost call that has not returned, and the calls below it.
Top == frames[Len(frames)]
Below == SubSeq(frames, 1, Len(frames) - 1)

\* The minimax call that consumes the generators above it.
Consumer ==
    CHOOSE k \in 1..Len(frames) :
        /\ frames[k].kind = "minimax"
        /\ \A j \in (k + 1)..Len(frames) : frames[j].kind # "minimax"

\* A generator yields the compound move and the Board object id: the frame
\* f of the generator stays suspended, and the consumer calls minimax for
\* the yielded board with depth - 1 (lines 161 and 171).  h is the heap the
\* generator leaves.
Yield(h, f, id) ==
    LET Called(c) ==
            /\ heap' = h
            /\ yielded' = Append(yielded, [move |-> f.move, board |-> id,
                                           grid |-> h[id]])
            /\ frames' = Below \o <<[f EXCEPT !.phase = "yielded"],
                                    MinimaxFrame(h, id, c.player, c.depth - 1,
                                                 ~c.maximizing, c.alpha, c.beta)>>
    IN  Called(frames[Consumer])

\* minimax returns: the call leaves the stack.
Return(score) ==
    /\ frames' = Below
    /\ returned' = <<score>>

\* minimax, lines 142-159 and 169: the cache, the sides without pieces and
\* depth 0 return; otherwise best is set and get_compound_moves is called
\* for the side to move, whose body runs to line 89 at the first next().
MinimaxEnter ==
    /\ frames # <<>>
    /\ Top.kind = "minimax" /\ Top.phase = "enter"
    /\ LET Entered(f, grid) ==
               IF grid \in DOMAIN cache
               THEN Return(cache[grid]) /\ UNCHANGED cache
               ELSE IF NoPieces(grid, f.player)
               THEN Return(-1000 - f.depth) /\ UNCHANGED cache
               ELSE IF NoPieces(grid, Other(f.player))
               THEN Return(1000 + f.depth) /\ UNCHANGED cache
               ELSE IF f.depth = 0
               THEN Return(Score(grid, f.player))
                    /\ cache' = CachePut(cache, grid, Score(grid, f.player))
               ELSE LET Looping(side) ==
                            frames' = Below \o
                                <<[f EXCEPT !.phase = "loop",
                                      !.best = <<IF f.maximizing THEN -2000 + f.depth
                                                 ELSE 2000 - f.depth, <<>> >>],
                                  CompoundFrame(heap, f.board, side,
                                                GetMoves(grid, side, None))>>
                    IN  /\ Looping(IF f.maximizing THEN f.player ELSE Other(f.player))
                        /\ UNCHANGED <<cache, returned>>
       IN  Entered(Top, heap[Top.board])
    /\ UNCHANGED <<gameVars, computer_data, depth, samples, turns, plan, last_move,
                   calls, call, memo, heap, yielded>>

\* minimax, lines 167 and 177: the loop is over, best[0] is returned.
MinimaxReturn ==
    /\ frames # <<>>
    /\ Top.kind = "minimax" /\ Top.phase = "loop"
    /\ Return(Top.best[1])
    /\ UNCHANGED <<gameVars, computer_data, cache, depth, samples, turns, plan,
                   last_move, calls, call, memo, heap, yielded>>

\* get_compound_moves, lines 90-101 for the next piece and move: the board
\* is copied; a capturing move goes to get_subsequent_moves, any other move
\* is made on the copy, the piece is crowned and the copy is yielded.
CompoundNext ==
    /\ frames # <<>>
    /\ Top.kind = "compound" /\ Top.phase = "loop" /\ Top.items # <<>>
    /\ LET Based(f, c, base_move) ==
               IF f.capturing
               THEN /\ heap' = c.heap
                    /\ frames' = Below \o
                          <<[f EXCEPT !.items = Tail(f.items)],
                            SubsequentFrame(c.board, f.player, base_move)>>
                    /\ UNCHANGED yielded
               ELSE Yield([c.heap EXCEPT ![c.board] =
                               Crown(Move(c.heap[c.board], base_move[1], base_move[2]),
                                     f.player, base_move[2])],
                          [f EXCEPT !.items = Tail(f.items), !.move = base_move],
                          c.board)
       IN  Based(Top, BoardCopy(heap, Top.board), Head(Top.items))
    /\ UNCHANGED <<gameVars, computer_data, cache, depth, samples, turns, plan,
                   last_move, calls, call, memo, returned>>

\* get_compound_moves: the loops are over, the generator is exhausted.
CompoundStop ==
    /\ frames # <<>>
    /\ Top.kind = "compound" /\ Top.phase = "loop" /\ Top.items = <<>>
    /\ frames' = Below
    /\ UNCHANGED <<gameVars, computer_data, cache, depth, samples, turns, plan,
                   last_move, calls, call, memo, heap, yielded, returned>>

\* get_subsequent_moves, lines 55-63: the last step of compound_move is
\* made on next_board itself; without a further capture the piece is
\* crowned and next_board is yielded, otherwise the moves of the first item
\* are looped over.
SubsequentEnter ==
    /\ frames # <<>>
    /\ Top.kind = "subsequent" /\ Top.phase = "enter"
    /\ LET n == Len(Top.move)
           Moved(f, next_board) ==
               LET Got(r) ==
                       IF ~r.capturing
                       THEN Yield([heap EXCEPT ![f.board] =
                                       Crown(next_board, f.player, f.move[n])],
                                  f, f.board)
                       ELSE /\ heap' = [heap EXCEPT ![f.board] = next_board]
                            /\ frames' = Below \o
                                  <<[f EXCEPT !.phase = "loop",
                                              !.items = r.moves[1][2]]>>
                            /\ UNCHANGED yielded
               IN  Got(GetMoves(next_board, f.player, f.move[n]))
       IN  Moved(Top, Move(heap[Top.board], Top.move[n - 1], Top.move[n]))
    /\ UNCHANGED <<gameVars, computer_data, cache, depth, samples, turns, plan,
                   last_move, calls, call, memo, returned>>

\* get_subsequent_moves, lines 64-65 for the next move: next_board is
\* copied and the generator of the longer compound move is entered.
SubsequentNext ==
    /\ frames # <<>>
    /\ Top.kind = "subsequent" /\ Top.phase = "loop" /\ Top.items # <<>>
    /\ LET Copied(f, c) ==
               /\ heap' = c.heap
               /\ frames' = Below \o
                     <<[f EXCEPT !.items = Tail(f.items)],
                       SubsequentFrame(c.board, f.player,
                                       Append(f.move, Head(f.items)))>>
       IN  Copied(Top, BoardCopy(heap, Top.board))
    /\ UNCHANGED <<gameVars, computer_data, cache, depth, samples, turns, plan,
                   last_move, calls, call, memo, yielded, returned>>

\* get_subsequent_moves: the loop of line 64 is over.
SubsequentStop ==
    /\ frames # <<>>
    /\ Top.kind = "subsequent" /\ Top.phase = "loop" /\ Top.items = <<>>
    /\ frames' = Below
    /\ UNCHANGED <<gameVars, computer_data, cache, depth, samples, turns, plan,
                   last_move, calls, call, memo, heap, yielded, returned>>

\* minimax, lines 161-166 and 171-176 after the recursive call returned
\* score for the board the generator on top yielded: alpha or beta and best
\* are updated; on a cut-off the loop is left and the generators are
\* dropped, otherwise the generator is resumed after its yield, where
\* get_subsequent_moves ends and get_compound_moves goes on looping.
Resume ==
    /\ frames # <<>>
    /\ Top.phase = "yielded" /\ returned # <<>>
    /\ LET Updated(k, c, score, compound_move) ==
               LET Looped(c2) ==
                       IF IF c.maximizing THEN score >= c.beta ELSE score <= c.alpha
                       THEN frames' = SubSeq(frames, 1, k - 1) \o <<c2>>
                       ELSE frames' = SubSeq(frames, 1, k - 1) \o <<c2>>
                                      \o SubSeq(frames, k + 1, Len(frames) - 1)
                                      \o (IF Top.kind = "compound"
                                          THEN <<[Top EXCEPT !.phase = "loop"]>>
                                          ELSE <<>>)
               IN  Looped([c EXCEPT
                       !.alpha = IF c.maximizing THEN Max(c.alpha, score) ELSE c.alpha,
                       !.beta = IF c.maximizing THEN c.beta ELSE Min(c.beta, score),
                       !.best = IF IF c.maximizing THEN score > c.best[1]
                                   ELSE score < c.best[1]
                                THEN <<score, compound_move>> ELSE c.best,
                       !.seen = Append(c.seen, [move |-> compound_move,
                                                score |-> score])])
       IN  Updated(Consumer, frames[Consumer], returned[1], Top.move)
    /\ returned' = <<>>
    /\ UNCHANGED <<gameVars, computer_data, cache, depth, samples, turns, plan,
                   last_move, calls, call, memo, heap, yielded>>

NextExpand ==
    \/ MinimaxEnter
    \/ MinimaxReturn
    \/ CompoundNext
    \/ CompoundStop
    \/ SubsequentEnter
    \/ SubsequentNext
    \/ SubsequentStop
    \/ Resume

SpecExpand == InitExpand /\ [][NextExpand]_vars

(***************************************************************************)
(* The Board interface called directly, as tests/board_test.py calls it:   *)
(* a Board is constructed from nothing or from a string, and then set and  *)
(* move are called with any position, also one outside the board or on a   *)
(* light cell.  call records the last call and what it did.                *)
(***************************************************************************)
\* Board.__init__: a non-empty string becomes the grid as it is; None and
\* the empty string give the default configuration.
BoardInit(string) == IF string # <<>> THEN string ELSE StartGrid

\* The symbols Tile.__init__ accepts.
TileSymbols == {" ", ".", "1", "2", "a", "b"}

\* The error Board.get raises, "none" when it returns: the grid has no
\* character at the index of an in-board position (IndexError), or the
\* character is not one Tile.__init__ accepts (AssertionError).
GetError(grid, pos) ==
    IF ~IsInBoard(pos) THEN "none"
    ELSE IF pos[1] + pos[2] * Count + 1 > Len(grid) THEN "IndexError"
    ELSE IF grid[pos[1] + pos[2] * Count + 1] \notin TileSymbols THEN "AssertionError"
    ELSE "none"

MaxBoardCalls == 1

\* The strings a Board is constructed from: none, boards of the tests, and
\* strings one character short, one character long and with a foreign symbol.
Encodings ==
    {<<>>, BoardGameTest, BoardKings,
     SubSeq(BoardGameTest, 1, Count * Count - 1),
     BoardGameTest \o <<".">>,
     [BoardKings EXCEPT ![2] = "x"]}

\* The positions set and move are called with: tiles, light cells and
\* positions outside the board on every side.
ApiPositions ==
    {<<1, 0>>, <<2, 1>>, <<3, 2>>, <<4, 3>>, <<0, 7>>, <<0, 0>>, <<3, 3>>,
     <<8, 0>>, <<-1, 0>>, <<0, 8>>, <<3, -1>>}

InitBoard ==
    /\ \E string \in Encodings :
          /\ board = BoardInit(string)
          /\ call = [op |-> "Board", string |-> string, before |-> <<>>,
                     error |-> "none"]
    /\ active_player = "ONE"
    /\ selected_piece = None
    /\ locked_piece = None
    /\ moves = <<>>
    /\ victor = NoPlayer
    /\ refresh = FALSE
    /\ animating = FALSE
    /\ computer_data = [compound_move |-> <<>>, achievable_score |-> 0,
                        search_depth |-> MINIMUM_DEPTH]
    /\ cache = EmptyCache
    /\ depth = MINIMUM_DEPTH
    /\ samples = 0
    /\ turns = 0
    /\ plan = NoCall
    /\ last_move = NoCall
    /\ calls = 0
    /\ memo = NoCall
    /\ ExpandIdle

\* board.set(pos, Tile(value))
BoardSet ==
    /\ calls < MaxBoardCalls
    /\ \E pos \in ApiPositions, value \in TileSymbols :
          /\ board' = Set(board, pos, value)
          /\ call' = [op |-> "set", pos |-> pos, pos2 |-> pos, value |-> value,
                      before |-> board, error |-> "none"]
    /\ calls' = calls + 1
    /\ UNCHANGED <<expandVars, active_player, selected_piece, locked_piece, moves,
                   victor, refresh, animating, computer_data, cache, depth,
                   samples, turns, plan, last_move, memo>>

\* board.move(pos, pos2): the get of its first line raises and the grid
\* stays as it was, or the move is made without any validation.
BoardMove ==
    /\ calls < MaxBoardCalls
    /\ \E pos \in ApiPositions, pos2 \in ApiPositions :
          /\ board' = IF GetError(board, pos) # "none" THEN board
                       ELSE Move(board, pos, pos2)
          /\ call' = [op |-> "move", pos |-> pos, pos2 |-> pos2, value |-> " ",
                      before |-> board, error |-> GetError(board, pos)]
    /\ calls' = calls + 1
    /\ UNCHANGED <<expandVars, active_player, selected_piece, locked_piece, moves,
                   victor, refresh, animating, computer_data, cache, depth,
                   samples, turns, plan, last_move, memo>>

NextBoard == BoardSet \/ BoardMove

SpecBoard == InitBoard /\ [][NextBoard]_vars

(***************************************************************************)
(* Properties                                                              *)
(***************************************************************************)
\* A step that jumps: source and destination are two tiles apart.
IsJump(pos, pos2) == Distance(pos, pos2) = 2

\* The pieces get_moves / generate_moves consider.
Considered(b, player, locked) ==
    IF locked # None THEN <<locked>> ELSE GetPlayerPieces(b, player)

\* Some considered piece has a capturing destination.
HasCapture(b, tiles) ==
    \E t \in Range(tiles) : \E m \in Range(GetPieceMoves(b, t)) : m[2]

\* Every key of the move map has destinations, and all of them are jumps.
OnlyCaptures(map) ==
    \A item \in Range(map) :
        item[2] # <<>> /\ \A d \in Range(item[2]) : IsJump(item[1], d)

\* The locked pieces a call can name: none, or a piece of the side.
LockedChoices(b, player) == {None} \cup Range(GetPlayerPieces(b, player))

\* C1: forced capture. For the board of every reachable game state, either
\* side and every locked piece: if a considered piece has a capturing
\* destination, the map of get_moves and the map of generate_moves hold only
\* pieces with captures and only capturing destinations; so do the
\* destinations stored in Game.moves.
C1_ForcedCapture ==
    /\ \A player \in {"ONE", "TWO"} : \A locked \in LockedChoices(board, player) :
          HasCapture(board, Considered(board, player, locked))
          => /\ GetMoves(board, player, locked).capturing
             /\ OnlyCaptures(GetMoves(board, player, locked).moves)
             /\ OnlyCaptures(GenerateMoves(board, player, locked))
    /\ HasCapture(board, Considered(board, active_player, locked_piece))
          => \A item \in Range(moves) : \A d \in Range(item[2]) : IsJump(item[1], d)

\* A game state in which the side to move has a capture while one of its
\* pieces also has a plain step, and the stored map is not empty.
C1_Witness ==
    /\ locked_piece = None
    /\ HasCapture(board, GetPlayerPieces(board, active_player))
    /\ \E t \in Range(GetPlayerPieces(board, active_player)) :
          \E m \in Range(GetPieceMoves(board, t)) : ~m[2]
    /\ moves # <<>>

\* The board after the steps of a compound move, applied with Board.move
\* alone (no crowning), up to landing k.
RECURSIVE Replay(_, _, _)
Replay(b, move, k) ==
    IF k <= 1 THEN b
    ELSE Move(Replay(b, move, k - 1), move[k - 1], move[k])

\* The steps 1..n-1 of a compound move are all jumps.
AllJumps(move) == \A k \in 1..(Len(move) - 1) : IsJump(move[k], move[k + 1])

\* a is a proper prefix of b.
ProperPrefix(a, b) == Len(a) < Len(b) /\ SubSeq(b, 1, Len(a)) = a

\* C2: capture chains are maximal. For the board of every reachable game
\* state and either side, a yielded compound move that starts with a capture
\* ends on a square from which the piece, not yet crowned, has no capture;
\* it is no proper prefix of another yielded move; and a compound move with
\* more than one landing consists of captures only.
C2_MaximalChains ==
    \A player \in {"ONE", "TWO"} :
        \A ys \in {GetCompoundMoves(board, player)} :
            \A y \in Range(ys) :
                /\ Len(y.move) >= 2
                /\ IsJump(y.move[1], y.move[2])
                   => /\ AllJumps(y.move)
                      /\ \A m \in Range(GetPieceMoves(
                                Replay(board, y.move, Len(y.move)),
                                y.move[Len(y.move)])) : ~m[2]
                      /\ \A z \in Range(ys) : ~ProperPrefix(y.move, z.move)
                /\ Len(y.move) > 2 => AllJumps(y.move)

\* A game state from which a chain of at least two captures is yielded.
C2_Witness ==
    \E player \in {"ONE", "TWO"} :
        \E y \in Range(GetCompoundMoves(board, player)) :
            Len(y.move) >= 3 /\ AllJumps(y.move)

\* The compound moves get_compound_moves yields for a side.
LegalMoves(b, player) == {y.move : y \in Range(GetCompoundMoves(b, player))}

\* The game is over on b for player: it has no piece or no legal move, or
\* the opponent has no piece.
GameOver(b, player) ==
    \/ NoPieces(b, player)
    \/ NoPieces(b, Other(player))
    \/ LegalMoves(b, player) = {}

\* C3: run with a search depth of at least 1 returns an empty compound_move
\* only when the game is over for the position, and when the side has a legal
\* compound move and the opponent a piece, it returns a non-empty
\* compound_move whose coordinate sequence is one of the side's legal
\* compound moves.
C3_RunReturnsLegalMove ==
    call.op = "run" /\ call.depth >= 1
    => /\ call.compound_move = <<>> => GameOver(board, call.player)
       /\ ~GameOver(board, call.player)
          => call.compound_move # <<>> /\ call.moves \in LegalMoves(board, call.player)

\* The pairs of consecutive squares of a coordinate sequence.
IsPairing(steps, squares) ==
    /\ Len(steps) = Len(squares) - 1
    /\ \A i \in 1..Len(steps) : steps[i] = <<squares[i], squares[i + 1]>>

\* What a call of run by Game.update leaves: the step list pairs the chosen
\* coordinate sequence, and the search evaluated a board for it.
RunLeavesSteps ==
    computer_data.compound_move = <<>> /\ computer_data'.compound_move # <<>>
    => /\ plan'.op = "run" /\ plan'.from = board
       /\ IsPairing(computer_data'.compound_move, plan'.moves)
       /\ plan'.board # None

\* What Game.update does with the next step of the list: the step is in
\* Game.moves, the next step starts where it ends, the turn stays with
\* Player.TWO exactly while steps are left, and after the last step the
\* board is the one the search evaluated.
StepReplayed ==
    computer_data.compound_move # <<>> /\ computer_data' # computer_data
    => \A step \in {Head(computer_data.compound_move)} :
          /\ active_player = "TWO"
          /\ step[2] \in Range(Lookup(moves, step[1]))
          /\ last_move'.pos = step[1] /\ last_move'.pos2 = step[2]
          /\ computer_data'.compound_move = Tail(computer_data.compound_move)
          /\ computer_data'.compound_move # <<>>
             => /\ Head(computer_data'.compound_move)[1] = step[2]
                /\ active_player' = "TWO"
          /\ computer_data'.compound_move = <<>>
             => /\ active_player' = "ONE"
                /\ board' = plan.board

\* C4: the step list run returns is replayed by the Game one step at a time:
\* the steps are the consecutive pairs of the chosen coordinate sequence, each
\* step is in Game.moves when Game.update applies it with move_piece,
\* active_player stays Player.TWO until the last step and becomes Player.ONE
\* exactly with it, and the board then equals the board the search evaluated
\* for the compound move.
C4_StepsReplay == [][RunLeavesSteps /\ StepReplayed]_vars

\* The Game has just replayed a chain of at least two steps to its end.
C4_Witness ==
    /\ plan.op = "run" /\ Len(plan.moves) >= 3
    /\ computer_data.compound_move = <<>>
    /\ last_move.op = "move_piece"
    /\ last_move.pos2 = plan.moves[Len(plan.moves)]
    /\ active_player = "ONE"
    /\ board = plan.board

SetMax(S) == CHOOSE x \in S : \A y \in S : y <= x
SetMin(S) == CHOOSE x \in S : \A y \in S : x <= y

\* The depth-limited recursion of minimax with its terminal rules and leaf
\* evaluation, without alpha-beta cutoffs and without the cache.
RECURSIVE PlainMinimax(_, _, _, _)
PlainMinimax(b, player, d, maximizing) ==
    IF NoPieces(b, player) THEN -1000 - d
    ELSE IF NoPieces(b, Other(player)) THEN 1000 + d
    ELSE IF d = 0 THEN Score(b, player)
    ELSE IF maximizing
    THEN SetMax({-2000 + d} \cup
                {PlainMinimax(y.board, player, d - 1, FALSE) :
                    y \in Range(GetCompoundMoves(b, player))})
    ELSE SetMin({2000 - d} \cup
                {PlainMinimax(y.board, player, d - 1, TRUE) :
                    y \in Range(GetCompoundMoves(b, Other(player)))})

\* C5: pruning and caching do not affect the decision. The score of minimax
\* started by run with an empty cache, alpha = -inf and beta = +inf equals the
\* score of the same recursion without cutoffs and cache lookups.
C5_SearchEqualsPlain ==
    call.op = "run"
    => call.score = PlainMinimax(board, call.player, call.depth, TRUE)

\* The grids d plies below b when mover moves first: the positions minimax
\* reaches with depth 0 in a search of depth d.
RECURSIVE LeafGrids(_, _, _)
LeafGrids(b, mover, d) ==
    IF d = 0 THEN {b}
    ELSE UNION {LeafGrids(y.board, Other(mover), d - 1) :
                    y \in Range(GetCompoundMoves(b, mover))}

\* C6: cache soundness. The cache a run leaves holds every entry written
\* during the run (an entry is never overwritten or removed while it runs):
\* every entry maps a grid to Board.score of the grid for the side passed to
\* run, every entry is a grid the search reached with depth 0, and so no
\* entry of an earlier call is left.
C6_CacheSound ==
    call.op = "run"
    => /\ \A g \in DOMAIN cache : cache[g] = Score(g, call.player)
       /\ DOMAIN cache \subseteq LeafGrids(board, call.player, call.depth)

\* A run that follows a call made for the other side and leaves entries with
\* a score that differs between the sides.
C6_Witness ==
    /\ call.op = "run" /\ calls >= 2
    /\ memo.player # call.player
    /\ \E g \in DOMAIN cache : cache[g] # 0

\* C7: determinism of the search. Two calls of minimax with the same board,
\* player and depth return the same score and compound move, whatever was
\* called in between.
C7_SearchDeterministic ==
    /\ call.op = "minimax" /\ memo.op = "minimax" /\ calls >= 2
    /\ call.player = memo.player /\ call.depth = memo.depth
    => call.score = memo.score /\ call.moves = memo.moves

\* The row a man of the side crowns on, and the side's king.
FarRow(player) == IF player = "ONE" THEN 0 ELSE Count - 1
KingOf(player) == IF player = "ONE" THEN "a" ELSE "b"
IsMan(t) == t \in {"1", "2"}

\* C8: crowning ends the turn. In every compound move get_compound_moves
\* yields for the board of a reachable game state, a man that lands on its
\* farthest row lands there last and is a king on the yielded board; and
\* after a move_piece that brought a man to its farthest row, by a step or by
\* a capture, the piece is a king, the turn has passed to the other side and
\* no piece is locked.
C8_CrowningEndsTurn ==
    /\ \A player \in {"ONE", "TWO"} :
          \A y \in Range(GetCompoundMoves(board, player)) :
             \A k \in 2..Len(y.move) :
                IsMan(Get(board, y.move[1])) /\ y.move[k][2] = FarRow(player)
                => /\ k = Len(y.move)
                   /\ Get(y.board, y.move[k]) = KingOf(player)
    /\ /\ last_move.op = "move_piece" /\ IsMan(last_move.piece)
       /\ last_move.pos2[2] = FarRow(PiecePlayer(last_move.piece))
       => /\ Get(board, last_move.pos2) = KingOf(PiecePlayer(last_move.piece))
          /\ active_player = Other(PiecePlayer(last_move.piece))
          /\ locked_piece = None

\* A man has just been crowned by a capture of the Game on a square from
\* which, as a king, it could capture on.
C8_Witness ==
    /\ last_move.op = "move_piece" /\ IsMan(last_move.piece)
    /\ IsJump(last_move.pos, last_move.pos2)
    /\ last_move.pos2[2] = FarRow(PiecePlayer(last_move.piece))
    /\ PieceKing(Get(board, last_move.pos2))
    /\ \E m \in Range(GetPieceMoves(board, last_move.pos2)) : m[2]

\* No cell that holds a king in grid a holds a man of that side in grid b.
NoDemotion(a, b) ==
    \A i \in 1..Len(a) : ~(a[i] = "a" /\ b[i] = "1") /\ ~(a[i] = "b" /\ b[i] = "2")

\* C9: promotion monotonicity. For the board of every reachable game state:
\* Board.move of a king to any of its destinations puts the same king there,
\* a compound move of a king yields a board with the king on its last
\* square, the move_piece that led to the state left a moved king a king, and
\* none of the three turned the 'a' of a cell into '1' or the 'b' into '2'.
C9_KingsStayKings ==
    /\ \A pos \in Range(Tiles) : \A m \in Range(GetPieceMoves(board, pos)) :
          \A nb \in {Move(board, pos, m[1])} :
             /\ PieceKing(Get(board, pos)) => Get(nb, m[1]) = Get(board, pos)
             /\ NoDemotion(board, nb)
    /\ \A player \in {"ONE", "TWO"} :
          \A y \in Range(GetCompoundMoves(board, player)) :
             /\ PieceKing(Get(board, y.move[1]))
                => Get(y.board, y.move[Len(y.move)]) = Get(board, y.move[1])
             /\ NoDemotion(board, y.board)
    /\ last_move.op = "move_piece"
       => /\ PieceKing(last_move.piece)
             => Get(board, last_move.pos2) = last_move.piece
          /\ NoDemotion(last_move.before, board)

\* A king has just captured in the Game.
C9_Witness ==
    /\ last_move.op = "move_piece" /\ PieceKing(last_move.piece)
    /\ IsJump(last_move.pos, last_move.pos2)

\* The number of jumps among the steps of a compound move.
Captures(move) == Cardinality({k \in 1..(Len(move) - 1) : IsJump(move[k], move[k + 1])})

\* C10: get_compound_moves terminates. For the board of every reachable game
\* state and either side it yields a finite list, every capture of a yielded
\* chain takes one opposing piece off the board (the measure that bounds the
\* recursion), and no chain has more captures than the input board has
\* opposing pieces.
C10_ChainsBounded ==
    \A player \in {"ONE", "TWO"} :
        \A ys \in {GetCompoundMoves(board, player)},
           opp \in {Len(GetPlayerPieces(board, Other(player)))} :
            /\ Len(ys) \in Nat
            /\ \A y \in Range(ys) :
                  /\ Captures(y.move) <= opp
                  /\ \A k \in 1..Len(y.move) :
                        Len(GetPlayerPieces(Replay(board, y.move, k), Other(player)))
                          = opp - Captures(SubSeq(y.move, 1, k))

\* A game state from which a chain is yielded that captures every piece of
\* the other side, two or more.
C10_Witness ==
    \E player \in {"ONE", "TWO"} :
        \E y \in Range(GetCompoundMoves(board, player)) :
            /\ Captures(y.move) >= 2
            /\ Captures(y.move) = Len(GetPlayerPieces(board, Other(player)))

\* The squares jumped over by the steps of a compound move.
Midpoints(move) ==
    {Center(move[k], move[k + 1]) :
        k \in {j \in 1..(Len(move) - 1) : IsJump(move[j], move[j + 1])}}

\* C11: piece accounting of get_compound_moves. For every position of play
\* and either side, on every yielded board the opposing side has one piece
\* fewer per capture of the chain, the pieces taken off are exactly the
\* opposing pieces on the midpoints of the jumps, the opposing pieces are
\* untouched by a move without capture, and the moving side has as many
\* pieces as before.
C11_PieceAccounting ==
    \A player \in {"ONE", "TWO"} :
        \A y \in Range(GetCompoundMoves(board, player)) :
            /\ Len(GetPlayerPieces(y.board, Other(player)))
                  = Len(GetPlayerPieces(board, Other(player))) - Captures(y.move)
            /\ Cardinality(Midpoints(y.move)) = Captures(y.move)
            /\ Midpoints(y.move) \subseteq Range(GetPlayerPieces(board, Other(player)))
            /\ Range(GetPlayerPieces(y.board, Other(player)))
                  = Range(GetPlayerPieces(board, Other(player))) \ Midpoints(y.move)
            /\ Captures(y.move) = 0
               => GetPlayerPieces(y.board, Other(player))
                    = GetPlayerPieces(board, Other(player))
            /\ Len(GetPlayerPieces(y.board, player)) = Len(GetPlayerPieces(board, player))

\* A position from which a side has a chain of two captures that leaves
\* opposing pieces on the board.
C11_Witness ==
    \E player \in {"ONE", "TWO"} :
        \E y \in Range(GetCompoundMoves(board, player)) :
            /\ Captures(y.move) >= 2
            /\ Len(GetPlayerPieces(y.board, Other(player))) >= 1
            /\ Len(GetPlayerPieces(board, Other(player))) > Captures(y.move)

(***************************************************************************)
(* C12: destinations of get_piece_moves                                    *)
(***************************************************************************)
\* The coordinates asked about: the board and the ring of positions around it.
Coordinates == {<<x, y>> : x \in (-1)..Count, y \in (-1)..Count}

\* The squares behind an opposing piece that stands next to pos in a
\* direction the piece may move, when they are not empty: the landing
\* squares of the jumps get_piece_moves refuses.
RefusedLandings(grid, pos) ==
    IF ~HasPiece(Get(grid, pos)) THEN {}
    ELSE {VAdd(tile, VSub(tile, pos)) : tile \in
            {t \in Range(AdjacentTiles(pos)) :
                /\ PieceKing(Get(grid, pos))
                   \/ ((t[2] > pos[2]) = (PiecePlayer(Get(grid, pos)) = "TWO"))
                /\ HasPiece(Get(grid, t))
                /\ PiecePlayer(Get(grid, t)) # PiecePlayer(Get(grid, pos))
                /\ ~TileEmpty(Get(grid, VAdd(t, VSub(t, pos))))}}

C13_BranchIsolation ==
    /\ heap[1] = board
    /\ \A k \in 1..Len(frames) :
          frames[k].kind \in {"minimax", "compound"}
              => heap[frames[k].board] = frames[k].given
    /\ \A k \in 1..Len(yielded) :
          /\ heap[yielded[k].board] = yielded[k].grid
          /\ yielded[k].board # 1
          /\ \A j \in 1..Len(yielded) :
                j # k => yielded[j].board # yielded[k].board

\* A finished expansion of depth 2: a chain of two captures was yielded,
\* boards yielded at depth 1 were expanded in their turn, and objects were
\* copied for jumps that went on.
C13_Witness ==
    /\ frames = <<>>
    /\ depth = 2
    /\ \E k \in 1..Len(yielded) : Captures(yielded[k].move) >= 2
    /\ \E j, k \in 1..Len(yielded) : yielded[j].grid # yielded[k].grid
    /\ \E j, k \in 1..Len(yielded) :
          j < k /\ yielded[k].grid # board
                /\ \E y \in Range(GetCompoundMoves(yielded[j].grid, "ONE")) \cup
                             Range(GetCompoundMoves(yielded[j].grid, "TWO")) :
                       y.board = yielded[k].grid
    /\ Len(heap) > Len(yielded) + 1

(***************************************************************************)
(* C14: position invariants                                                *)
(***************************************************************************)
\* A grid of Count * Count cells whose cells with x + y even hold the
\* off-board symbol and whose cells with x + y odd hold empty, a man or a
\* king of either side.
WellFormed(grid) ==
    /\ Len(grid) = Count * Count
    /\ \A i \in 1..Len(grid) :
          IF (AllTiles[i][1] + AllTiles[i][2]) % 2 = 0
          THEN grid[i] = " "
          ELSE grid[i] \in {".", "1", "2", "a", "b"}

\* C14: the board of every position reached from a well-formed position by
\* moves of the move generator, through Game.move_piece or as a board
\* yielded by get_compound_moves, has exactly 64 cells, the off-board
\* symbol on every cell with x + y even and empty, a man or a king on every
\* cell with x + y odd; so has every board get_compound_moves yields next.
C14_PositionInvariants ==
    /\ WellFormed(board)
    /\ \A player \in {"ONE", "TWO"} :
          \A y \in Range(GetCompoundMoves(board, player)) : WellFormed(y.board)

\* A position reached by a move that captured and crowned.
C14_Witness ==
    /\ last_move.op # "none"
    /\ WellFormed(last_move.before)
    /\ PieceCount(board) < PieceCount(last_move.before)
    /\ \E pos \in Range(Tiles) :
          PieceKing(Get(board, pos)) /\ ~PieceKing(Get(last_move.before, pos))

(***************************************************************************)
(* C15: no-moves loss                                                      *)
(***************************************************************************)
\* The step made a move that took the last piece of the side that did not move.
TookLastPiece ==
    /\ last_move' # last_move
    /\ ~NoPieces(board, Other(active_player))
    /\ NoPieces(board', Other(active_player))

\* C15: when a step starts a turn (Game.next_turn ran) and the side to move
\* has no pieces, or has pieces but no legal move, the victor is the other
\* side; and when a move takes the opponent's last piece the turn passes to
\* the opponent, its move map is empty and the mover is the victor.
C15_NoMovesLoss ==
    [][/\ (/\ turns' = turns + 1
            /\ \/ NoPieces(board', active_player')
               \/ GetMoves(board', active_player', None).moves = <<>>)
           => victor' = Other(active_player')
       /\ TookLastPiece
           => /\ turns' = turns + 1
              /\ active_player' = Other(active_player)
              /\ moves' = <<>>
              /\ victor' = active_player]_vars

\* A turn has started for a side that has pieces, none of which can move,
\* and the other side is the victor.
C15_Witness ==
    /\ turns >= 1
    /\ ~NoPieces(board, active_player)
    /\ \A pos \in Range(GetPlayerPieces(board, active_player)) :
          GetPieceMoves(board, pos) = <<>>
    /\ moves = <<>>
    /\ victor = Other(active_player)

(***************************************************************************)
(* C16: the forced multi-jump scenario                                     *)
(***************************************************************************)
\* A Player.TWO man on (3,0) next to Player.ONE men on (2,1) and (4,1),
\* the squares (1,2) and (5,2) beyond them empty.
ForkedJump(grid) ==
    /\ Get(grid, <<3, 0>>) = "2"
    /\ Get(grid, <<2, 1>>) = "1" /\ Get(grid, <<1, 2>>) = EMPTY
    /\ Get(grid, <<4, 1>>) = "1" /\ Get(grid, <<5, 2>>) = EMPTY

\* A Player.TWO man on (3,0), Player.ONE men on (4,1) and (4,3), the
\* squares (5,2) and (3,4) beyond them empty.
ChainedJump(grid) ==
    /\ Get(grid, <<3, 0>>) = "2"
    /\ Get(grid, <<4, 1>>) = "1" /\ Get(grid, <<5, 2>>) = EMPTY
    /\ Get(grid, <<4, 3>>) = "1" /\ Get(grid, <<3, 4>>) = EMPTY

\* get_compound_moves for Player.TWO yields (3,0)->(5,2)->(3,4) with the
\* two named men captured, and yields no compound move of a single capture.
YieldsDoubleJump(grid, man1, man2) ==
    /\ \E y \in Range(GetCompoundMoves(grid, "TWO")) :
          /\ y.move = <<(<<3, 0>>), (<<5, 2>>), (<<3, 4>>)>>
          /\ Get(y.board, man1) = EMPTY
          /\ Get(y.board, man2) = EMPTY
    /\ \A y \in Range(GetCompoundMoves(grid, "TWO")) : Captures(y.move) # 1

\* C16 as stated: with the Player.ONE men on (2,1) and (4,1), the compound
\* move (3,0)->(5,2)->(3,4) capturing both is yielded and no single capture.
C16_AsStated ==
    ForkedJump(board) => YieldsDoubleJump(board, <<2, 1>>, <<4, 1>>)

\* C16: with the Player.ONE men on (4,1) and (4,3), get_compound_moves for
\* Player.TWO yields the compound move (3,0)->(5,2)->(3,4) capturing both
\* men and yields no compound move of a single capture.
C16_ChainedDoubleJump ==
    ChainedJump(board) => YieldsDoubleJump(board, <<4, 1>>, <<4, 3>>)

\* The position of the scenario with the men on (4,1) and (4,3), where the
\* man on (3,0) is the piece that has to capture.
C16_Witness ==
    /\ ChainedJump(board)
    /\ GetMoves(board, "TWO", None).capturing
    /\ \E item \in Range(GetMoves(board, "TWO", None).moves) : item[1] = <<3, 0>>

(***************************************************************************)
(* C17: the only move wins                                                 *)
(***************************************************************************)
\* The side has exactly one legal compound move on the grid, a capture
\* chain that leaves no opposing piece.
OnlyMoveWins(grid, player) ==
    \A yields \in {GetCompoundMoves(grid, player)} :
        /\ Len(yields) = 1
        /\ Captures(yields[1].move) >= 1
        /\ NoPieces(yields[1].board, Other(player))

\* C17: when the side to move has exactly one legal compound move and it is
\* a capture chain removing every opposing piece, run at search depth
\* d >= 2 returns that chain as consecutive (source, destination) steps
\* and the score 1000 + (d - 1), which is greater than 1000.
C17_OnlyMoveWins ==
    (call.op = "run" /\ call.depth >= 2 /\ OnlyMoveWins(board, call.player))
        => \A y \in Range(GetCompoundMoves(board, call.player)) :
              /\ call.moves = y.move
              /\ Len(call.compound_move) = Len(y.move) - 1
              /\ \A k \in 1..Len(call.compound_move) :
                    call.compound_move[k] = <<y.move[k], y.move[k + 1]>>
              /\ call.score = 1000 + (call.depth - 1)
              /\ call.score > 1000

\* run at depth 3 for Player.TWO on the board of tests/ai_test.py, whose
\* only move is the double jump (3,0)->(5,2)->(3,4).
C17_Witness ==
    /\ call.op = "run" /\ call.depth = 3 /\ call.player = "TWO"
    /\ OnlyMoveWins(board, "TWO")
    /\ call.compound_move = << <<(<<3, 0>>), (<<5, 2>>)>>, <<(<<5, 2>>), (<<3, 4>>)>> >>

(***************************************************************************)
(* C18: the move map of the Game and of the search                         *)
(***************************************************************************)
\* The values locked_piece can take: None or a tile.
LockChoices == {None} \cup Range(Tiles)

\* C18: for the board of every position of play, each active player and
\* each locked piece, generate_moves stores exactly the mapping get_moves
\* returns for that board, side and locked piece; the map the Game holds
\* is the one get_moves returns for its board, active player and locked
\* piece.
C18_GameMapIsSearchMap ==
    /\ \A player \in {"ONE", "TWO"} : \A locked \in LockChoices :
          GenerateMoves(board, player, locked) = GetMoves(board, player, locked).moves
    /\ moves = GetMoves(board, active_player, locked_piece).moves

\* In the middle of a capture chain: a piece is locked, the side has other
\* pieces, and the map the Game holds is the not empty map of the locked
\* piece.
C18_Witness ==
    /\ locked_piece # None
    /\ last_move.op = "move_piece"
    /\ Len(GetPlayerPieces(board, active_player)) >= 2
    /\ moves # <<>>
    /\ \A k \in 1..Len(moves) : moves[k][1] = locked_piece

(***************************************************************************)
(* C19: the move map under a lock                                          *)
(***************************************************************************)
\* The capturing destinations get_piece_moves yields for the piece on pos.
CapturingDestinations(grid, pos) ==
    MapSeq(LAMBDA m : m[1], SelectSeq(GetPieceMoves(grid, pos), LAMBDA m : m[2]))

\* The map holds the locked piece only: nothing when it has no capture,
\* else the locked piece with its capturing destinations.
LockedMap(map, grid, locked) ==
    IF CapturingDestinations(grid, locked) = <<>>
    THEN map = <<>>
    ELSE map = << <<locked, CapturingDestinations(grid, locked)>> >>

\* C19: with a locked piece given, the move map of get_moves and of
\* generate_moves is empty when the locked piece has no capture, and
\* otherwise has the locked piece as its single key with only its capturing
\* destinations, whatever moves the other pieces of the side have.
C19_LockedPieceOnly ==
    \A player \in {"ONE", "TWO"} : \A locked \in Range(Tiles) :
        /\ LockedMap(GetMoves(board, player, locked).moves, board, locked)
        /\ LockedMap(GenerateMoves(board, player, locked), board, locked)

\* A side with a piece that can capture and a piece that can move but not
\* capture: locked on the second the map is empty, locked on the first it
\* holds that piece alone.
C19_Witness ==
    \E player \in {"ONE", "TWO"} :
        \E pos, pos2 \in Range(GetPlayerPieces(board, player)) :
            /\ CapturingDestinations(board, pos) # <<>>
            /\ \E m \in Range(GetPieceMoves(board, pos)) : ~m[2]
            /\ CapturingDestinations(board, pos2) = <<>>
            /\ GetPieceMoves(board, pos2) # <<>>
            /\ GetMoves(board, player, pos2).moves = <<>>
            /\ Len(GetMoves(board, player, pos).moves) = 1

(***************************************************************************)
(* C20: the move map without captures                                      *)
(***************************************************************************)
\* The map holds exactly the pieces of the side that have a destination,
\* once each, every one with all the destinations get_piece_moves yields,
\* none of them capturing.
FullMap(map, grid, player) ==
    /\ {map[k][1] : k \in 1..Len(map)} =
          {pos \in Range(GetPlayerPieces(grid, player)) : GetPieceMoves(grid, pos) # <<>>}
    /\ \A j, k \in 1..Len(map) : map[j][1] = map[k][1] => j = k
    /\ \A k \in 1..Len(map) :
          /\ map[k][2] = MapSeq(LAMBDA m : m[1], GetPieceMoves(grid, map[k][1]))
          /\ \A m \in Range(GetPieceMoves(grid, map[k][1])) : ~m[2]

\* The number of moves a map holds.
MoveCount(map) == SumSeq(MapSeq(LAMBDA item : Len(item[2]), map))

\* C20: when no piece of the side has a capture and no piece is locked, the
\* move map of get_moves and of generate_moves holds exactly the pieces of
\* the side with at least one destination, each with all of its
\* non-capturing destinations; on the standard starting position that is 4
\* pieces and 7 moves for Player.ONE.
C20_FullMapWithoutCapture ==
    /\ \A player \in {"ONE", "TWO"} :
          (\A pos \in Range(GetPlayerPieces(board, player)) :
               CapturingDestinations(board, pos) = <<>>)
          => /\ FullMap(GetMoves(board, player, None).moves, board, player)
             /\ FullMap(GenerateMoves(board, player, None), board, player)
    /\ board = StartGrid
          => /\ Len(GenerateMoves(board, "ONE", None)) = 4
             /\ MoveCount(GenerateMoves(board, "ONE", None)) = 7

\* The standard starting position with Player.ONE to move: no capture, no
\* lock, pieces that cannot move, and the Game holds the map of 4 pieces.
C20_Witness ==
    /\ board = StartGrid
    /\ active_player = "ONE"
    /\ locked_piece = None
    /\ Len(moves) = 4
    /\ Len(GetPlayerPieces(board, "ONE")) = 12

\* A string of Count * Count characters, each one of the six cell symbols.
EncodingWellFormed(string) ==
    /\ Len(string) = Count * Count
    /\ \A i \in 1..Len(string) : string[i] \in TileSymbols

\* C21: constructing a Board from a malformed string (its length is not 64,
\* or it holds a symbol outside the six cell symbols) fails with a
\* ConfigurationError at construction, and no Board with a malformed grid
\* exists after a construction.
C21_MalformedEncodingRejected ==
    call.op = "Board" =>
        /\ (call.string # <<>> /\ ~EncodingWellFormed(call.string))
               => call.error = "ConfigurationError"
        /\ EncodingWellFormed(board)

GridIndex(pos) == pos[1] + pos[2] * Count + 1

\* The grids differ at most at the indexes of the given positions.
SameExceptAt(g1, g2, positions) ==
    /\ Len(g1) = Len(g2)
    /\ \A i \in 1..Len(g1) :
          g1[i] # g2[i] => \E pos \in positions : GridIndex(pos) = i

C23_FitFailsSoft ==
    (/\ call.op \in {"run", "raise"}
     /\ call.fit # NoFit
     /\ FitError(call.fit) # "none")
        => /\ call.op = "run"
           /\ call.error = "none"
           /\ depth = call.depth

\* A step that is a call of run, returning or raising.
RunStep == calls' = calls + 1 /\ call'.op \in {"run", "raise"}

StartBoard ==
    MakeGrid(<<<<"2", "2", "2", "2">>, <<"2", "2", "2", "2">>,
               <<"2", "2", "2", "2">>, E4, E4,
               <<"1", "1", "1", "1">>, <<"1", "1", "1", "1">>,
               <<"1", "1", "1", "1">>>>)

\* C25: Board() without an argument is the standard starting position: the
\* grid of START_BOARD, twelve Player.TWO men on the dark cells of rows 0 to
\* 2 and twelve Player.ONE men on those of rows 5 to 7; its score is 0 for
\* either side.
C25_StandardStart ==
    (call.op = "Board" /\ call.string = <<>>) =>
        /\ board = StartBoard
        /\ \A pos \in Range(AllTiles) :
              /\ Get(board, pos) = "2" <=> (IsTile(pos) /\ pos[2] <= 2)
              /\ Get(board, pos) = "1" <=> (IsTile(pos) /\ pos[2] >= 5)
        /\ Len(GetPlayerPieces(board, "ONE")) = 12
        /\ Len(GetPlayerPieces(board, "TWO")) = 12
        /\ Score(board, "ONE") = 0
        /\ Score(board, "TWO") = 0

\* A Board was constructed without a string and holds men of both sides.
C25_Witness ==
    /\ call.op = "Board" /\ call.string = <<>>
    /\ Get(board, <<1, 0>>) = "2"
    /\ Get(board, <<0, 7>>) = "1"

\* A step that is a call of minimax on the board.
MinimaxStep == calls' = calls + 1 /\ call'.op = "minimax"

\* The cache holds what it held, and the score under the grid.
CacheStored(before, after, grid, score) ==
    /\ DOMAIN after = DOMAIN before \cup {grid}
    /\ after[grid] = score
    /\ \A g \in DOMAIN before : g # grid => after[g] = before[g]

\* C26: the terminal rules of minimax at a node that is not in the cache, in
\* this order: the searching side has no pieces, the result is
\* (-1000 - depth, no move); else the opponent has no pieces, the result is
\* (1000 + depth, no move); else depth is 0, the result is the board's score
\* for the searching side with no move, and the cache holds that score under
\* the grid afterwards.  The first two results leave the cache as it was.
C26_TerminalRules ==
    [][(MinimaxStep /\ board \notin DOMAIN cache) =>
          IF NoPieces(board, call'.player)
          THEN /\ call'.score = -1000 - call'.depth
               /\ call'.moves = <<>>
               /\ cache' = cache
          ELSE IF NoPieces(board, Other(call'.player))
          THEN /\ call'.score = 1000 + call'.depth
               /\ call'.moves = <<>>
               /\ cache' = cache
          ELSE call'.depth = 0 =>
                   /\ call'.score = Score(board, call'.player)
                   /\ call'.moves = <<>>
                   /\ CacheStored(cache, cache', board, call'.score)]_vars

\* minimax on a board without pieces of the searching side gave
\* -1000 - depth, and then for the other side at depth 0 it gave 1000, not
\* the score of the board; neither call cached anything.
C26_Witness ==
    /\ calls = 2
    /\ memo.op = "minimax" /\ call.op = "minimax"
    /\ NoPieces(board, memo.player) /\ memo.score = -1000 - memo.depth
    /\ call.player = Other(memo.player)
    /\ call.depth = 0 /\ call.score = 1000
    /\ cache = EmptyCache

\* The searching side of the call is defeated on the board: it has no
\* pieces, or the search looks at its moves and it has none.
Defeated(c) ==
    /\ c.op \in {"run", "minimax"}
    /\ \/ NoPieces(board, c.player)
       \/ c.depth > 0 /\ GetCompoundMoves(board, c.player) = <<>>

\* C27: losing sooner is worse than losing later.  Of two searches of a board
\* on which the searching side is defeated, the first of the session and a
\* later run, neither answered from the cache, the one with more remaining
\* depth gets the strictly lower score.
C27_DelayedDefeat ==
    (/\ calls >= 2
     /\ Defeated(memo)
     /\ call.op = "run" /\ Defeated(call)
     /\ call.player = memo.player
     /\ call.depth > memo.depth)
        => call.score < memo.score

\* The scores the loop of the minimax call f has got so far.
SeenScores(f) == {f.seen[k].score : k \in 1..Len(f.seen)}

\* best of the call f is the first compound move of its loop with the best
\* score so far, the largest for a maximizing call and the smallest for a
\* minimizing one.
FirstBestKept(f) ==
    f.seen # <<>> =>
        /\ \A v \in SeenScores(f) :
              IF f.maximizing THEN v <= f.best[1] ELSE v >= f.best[1]
        /\ \E k \in 1..Len(f.seen) :
              /\ f.seen[k].score = f.best[1]
              /\ f.seen[k].move = f.best[2]
              /\ \A j \in 1..(k - 1) : f.seen[j].score # f.best[1]

\* No compound move of the loop of f came after a score that reached beta
\* in a maximizing call, alpha in a minimizing one.
StoppedAtCutoff(f) ==
    \A k \in 1..(Len(f.seen) - 1) :
        IF f.maximizing THEN f.seen[k].score < f.beta
        ELSE f.seen[k].score > f.alpha

\* C28: stable tie-break and cut-off.  In every minimax call that is looping
\* over its compound moves, so also when it returns, best is the first
\* compound move, in the order of get_compound_moves, whose child score is
\* the best score, and no compound move was explored after a child score
\* >= beta at a maximizing node, <= alpha at a minimizing node.
C28_FirstBestAndCutoff ==
    \A k \in 1..Len(frames) :
        (frames[k].kind = "minimax" /\ frames[k].phase = "loop") =>
            /\ FirstBestKept(frames[k])
            /\ StoppedAtCutoff(frames[k])

\* The four diagonal directions.
Diagonals == {<<1, 1>>, <<1, -1>>, <<-1, 1>>, <<-1, -1>>}

\* The piece t may go in the direction d: a king in every direction, a
\* Player.ONE man towards row 0, a Player.TWO man towards row 7.
MayGo(t, d) ==
    \/ PieceKing(t)
    \/ PiecePlayer(t) = "ONE" /\ d[2] = -1
    \/ PiecePlayer(t) = "TWO" /\ d[2] = 1

\* The symbols of the pieces of a side.
PiecesOf(player) == IF player = "ONE" THEN {"1", "a"} ELSE {"2", "b"}

\* The moves the rules give the piece on pos: a step to an empty diagonal
\* neighbour, a jump over a neighbour of the other side to the empty cell
\* behind it, both inside the board and in a direction the piece may go.
RuleMoves(grid, pos) ==
    IF Get(grid, pos) \notin PiecesOf("ONE") \cup PiecesOf("TWO") THEN {}
    ELSE {<<VAdd(pos, d), FALSE>> : d \in
              {e \in Diagonals : /\ MayGo(Get(grid, pos), e)
                                 /\ IsInBoard(VAdd(pos, e))
                                 /\ Get(grid, VAdd(pos, e)) = EMPTY}}
         \cup
         {<<VAdd(VAdd(pos, d), d), TRUE>> : d \in
              {e \in Diagonals :
                  /\ MayGo(Get(grid, pos), e)
                  /\ IsInBoard(VAdd(pos, e))
                  /\ Get(grid, VAdd(pos, e)) \in
                         PiecesOf(Other(PiecePlayer(Get(grid, pos))))
                  /\ IsInBoard(VAdd(VAdd(pos, e), e))
                  /\ Get(grid, VAdd(VAdd(pos, e), e)) = EMPTY}}

MenOf(grid, player) ==
    {pos \in Range(Tiles) : Get(grid, pos) = (IF player = "ONE" THEN "1" ELSE "2")}
KingsOf(grid, player) ==
    {pos \in Range(Tiles) : Get(grid, pos) = (IF player = "ONE" THEN "a" ELSE "b")}

\* The value of the pieces of a side: 3 a man, 1 more for a man on column
\* 0 or 7, 1 more for a man on row 0 or 7, and 7 a king.
ValueOf(grid, player) ==
    3 * Cardinality(MenOf(grid, player))
    + Cardinality({pos \in MenOf(grid, player) : pos[1] \in {0, 7}})
    + Cardinality({pos \in MenOf(grid, player) : pos[2] \in {0, 7}})
    + 7 * Cardinality(KingsOf(grid, player))

\* C30: on every position of play, Board.score for a side is the value of
\* its pieces minus the value of the other side's pieces, a man counting 3,
\* plus 1 on column 0 or 7, plus 1 on row 0 or 7, and a king 7 wherever it
\* stands; so the score for a side is the negated score for the other.
C30_ScoreIsValueDifference ==
    /\ \A player \in {"ONE", "TWO"} :
          Score(board, player) =
              ValueOf(board, player) - ValueOf(board, Other(player))
    /\ Score(board, "ONE") = -Score(board, "TWO")

\* A position reached in play with a king on an edge and a man on an edge,
\* and a score that is not 0.
C30_Witness ==
    /\ last_move.op # "none"
    /\ \E player \in {"ONE", "TWO"} :
          \E pos \in KingsOf(board, player) :
              pos[1] \in {0, 7} \/ pos[2] \in {0, 7}
    /\ \E player \in {"ONE", "TWO"} :
          \E pos \in MenOf(board, player) :
              pos[1] \in {0, 7} \/ pos[2] \in {0, 7}
    /\ Score(board, "ONE") # 0

\* What Board.move(pos, m[1]) leaves of the grid for the pair m that
\* get_piece_moves yields for pos.
MoveEffect(grid, pos, m) ==
    LET After(after, mid) ==
            /\ Get(after, pos) = EMPTY
            /\ Get(after, m[1]) = Get(grid, pos)
            /\ m[2] => mid # None /\ Get(after, mid) = EMPTY
            /\ SameExceptAt(after, grid,
                            {pos, m[1]} \cup (IF m[2] THEN {mid} ELSE {}))
    IN  After(Move(grid, pos, m[1]), Center(pos, m[1]))

\* C31: effect and frame of Board.move.  On every position of play, for
\* every move get_piece_moves yields: after move the source is empty, the
\* destination holds the very piece that stood on the source, the midpoint
\* is empty when the move is a capture, and no other cell of the grid has
\* changed, so that a step changes the source and the destination only; a
\* move from a position without a piece changes nothing.
C31_MoveEffectAndFrame ==
    /\ \A pos \in Range(Tiles) :
          \A m \in Range(GetPieceMoves(board, pos)) : MoveEffect(board, pos, m)
    /\ \A pos \in Coordinates :
          ~HasPiece(Get(board, pos)) =>
              \A pos2 \in Coordinates : Move(board, pos, pos2) = board

\* A position reached by a move of a king that captured: the king stands on
\* the destination, source and midpoint are empty, and pieces of both sides
\* are left, which have steps and captures to make.
C31_Witness ==
    /\ last_move.op = "move_piece"
    /\ PieceKing(last_move.piece)
    /\ IsJump(last_move.pos, last_move.pos2)
    /\ Get(board, last_move.pos2) = last_move.piece
    /\ Get(board, last_move.pos) = EMPTY
    /\ Get(board, Center(last_move.pos, last_move.pos2)) = EMPTY
    /\ HasPiece(Get(last_move.before, Center(last_move.pos, last_move.pos2)))
    /\ \E pos \in Range(Tiles) : \E m \in Range(GetPieceMoves(board, pos)) : ~m[2]

\* A step of the game that is a call of move_piece.
MovePieceStep ==
    /\ board' # board
    /\ last_move'.op = "move_piece" /\ last_move'.before = board

\* The turn has ended: next_turn has passed it to the other side without a
\* selected or locked piece, has generated the move map of that side from
\* this state and has made the win check on it.
TurnEnded ==
    /\ active_player' = Other(active_player)
    /\ selected_piece' = None
    /\ locked_piece' = None
    /\ moves' = GenerateMoves(board', active_player', None)
    /\ victor' = IF NoPieces(board', active_player') \/ moves' = <<>>
                 THEN active_player ELSE victor

\* The turn goes on with the piece that has captured.
TurnGoesOn(pos2) ==
    /\ active_player' = active_player
    /\ locked_piece' = pos2
    /\ victor' = victor

\* C32: turn logic of move_piece.  A man that reached row 0 or 7 is crowned
\* and the turn ends; otherwise after a capture the piece is locked and the
\* turn goes on exactly when that piece has a further capture, else the turn
\* ends; a move without capture ends the turn.  The end of a turn passes it
\* to the other player with no selected and no locked piece, and the move
\* map and the win check are those of that state.
C32_TurnLogic ==
    [][MovePieceStep =>
          LET pos == last_move'.pos
              pos2 == last_move'.pos2
              piece == last_move'.piece
          IN  IF ~PieceKing(piece) /\ pos2[2] \in {0, 7}
              THEN /\ Get(board', pos2) = KingOf(PiecePlayer(piece))
                   /\ TurnEnded
              ELSE IF IsJump(pos, pos2)
              THEN IF \E m \in Range(GetPieceMoves(board', pos2)) : m[2]
                   THEN TurnGoesOn(pos2)
                   ELSE TurnEnded
              ELSE TurnEnded]_vars

\* A capture has just left its piece locked with the turn still on, and the
\* piece that captured is a man that is not on row 0 or 7.
C32_Witness ==
    /\ last_move.op = "move_piece"
    /\ IsJump(last_move.pos, last_move.pos2)
    /\ locked_piece = last_move.pos2
    /\ active_player = PiecePlayer(last_move.piece)
    /\ IsMan(Get(board, last_move.pos2))
    /\ \E m \in Range(GetPieceMoves(board, locked_piece)) : m[2]

\* The last call of run was made on the position the game is in now.
RunOnThisPosition == plan.op = "run" /\ plan.from = board

\* C33  On the computer's turn, with no victor, the computer comes to move
\* and the turn to pass to Player.ONE: the program is still running (no
\* error has left update), and a call of run made on the position the game
\* is in has left a step for update to apply, so that update does not call
\* run on the same position again.
C33_ComputerMoves ==
    (active_player = "TWO" /\ victor = NoPlayer) =>
        /\ Running
        /\ RunOnThisPosition => computer_data.compound_move # <<>>

\* C34  Game over is final: once victor is set it never changes, and no later
\* step changes the board grid, active_player or locked_piece.  No click is
\* handled (handle_click would leave refresh set, and may select a piece) and
\* no computer step is applied or searched for (computer_data is as it was).
C34_GameOverIsFinal ==
    [][victor # NoPlayer =>
          /\ victor' = victor
          /\ board' = board
          /\ active_player' = active_player
          /\ locked_piece' = locked_piece
          /\ selected_piece' = selected_piece
          /\ refresh' => refresh
          /\ computer_data' = computer_data]_vars

\* A move has ended the game with the loser still holding pieces, and the
\* game has been drawn since.
C34_Witness ==
    /\ victor # NoPlayer
    /\ last_move.op = "move_piece"
    /\ active_player = Other(victor)
    /\ ~NoPieces(board, active_player)
    /\ ~refresh

\* No Player.ONE man stands on row 0 and no Player.TWO man on row 7.
NoManOnFarRow(grid) ==
    \A x \in 0..(Count - 1) :
        /\ Get(grid, <<x, 0>>) # "1"
        /\ Get(grid, <<x, Count - 1>>) # "2"

\* The last move_piece brought a man to row 0 or 7.
ManReachedEdgeRow ==
    /\ last_move.op = "move_piece"
    /\ IsMan(last_move.piece)
    /\ last_move.pos2[2] \in {0, Count - 1}

\* C35  No uncrowned piece on the far row: on the board of every state of a
\* game played through move_piece, and on every board get_compound_moves
\* yields from it for either side, no Player.ONE man is on row 0 and no
\* Player.TWO man on row 7; and a man that move_piece brought to row 0 or 7
\* came to its own far row, never to its home row.
C35_NoManOnFarRow ==
    /\ NoManOnFarRow(board)
    /\ \A player \in {"ONE", "TWO"} :
          \A y \in Range(GetCompoundMoves(board, player)) : NoManOnFarRow(y.board)
    /\ ManReachedEdgeRow =>
          last_move.pos2[2] = FarRow(PiecePlayer(last_move.piece))

\* move_piece has crowned a man, and a compound move of the side now to move
\* ends with a man on its far row.
C35_Witness ==
    /\ ManReachedEdgeRow
    /\ Get(board, last_move.pos2) = KingOf(PiecePlayer(last_move.piece))
    /\ \E y \in Range(GetCompoundMoves(board, active_player)) :
          /\ IsMan(Get(board, y.move[1]))
          /\ y.move[Len(y.move)][2] = FarRow(active_player)

\* The step applies the move the computer had queued first.
ComputerStep ==
    /\ computer_data.compound_move # <<>>
    /\ computer_data'.compound_move = Tail(computer_data.compound_move)
    /\ Head(computer_data.compound_move) = <<last_move'.pos, last_move'.pos2>>

\* The step applies a click on the destination, for the selected piece.
HumanStep ==
    /\ computer_data' = computer_data
    /\ selected_piece = last_move'.pos

\* C36  Only legal moves are applied by the Game: every move_piece made
\* through update moves a piece of active_player to a destination that the
\* move map of that moment lists for it; the move is a click of the human
\* while Player.ONE is to move or the queued step of the computer while
\* Player.TWO is; and while a piece is locked, the piece moved is the locked
\* piece and the move is a capture.
C36_OnlyLegalMoves ==
    [][MovePieceStep =>
          LET pos == last_move'.pos
              pos2 == last_move'.pos2
          IN  /\ HasPiece(Get(board, pos))
              /\ PiecePlayer(Get(board, pos)) = active_player
              /\ pos2 \in Range(Lookup(moves, pos))
              /\ \/ active_player = "ONE" /\ HumanStep
                 \/ active_player = "TWO" /\ ComputerStep
              /\ locked_piece # None =>
                    pos = locked_piece /\ IsJump(pos, pos2)]_vars

\* The computer has applied the first capture of a compound move, its piece
\* is locked and the next capture is queued.
C36_Witness ==
    /\ last_move.op = "move_piece"
    /\ PiecePlayer(last_move.piece) = "TWO"
    /\ IsJump(last_move.pos, last_move.pos2)
    /\ active_player = "TWO"
    /\ locked_piece = last_move.pos2
    /\ computer_data.compound_move # <<>>
    /\ Head(computer_data.compound_move)[1] = locked_piece

\* Game.moves without the entries whose list is empty.
Listed(map) == SelectSeq(map, LAMBDA item : item[2] # <<>>)

\* C37  The stored move map is never stale: in every state between two
\* update calls, Game.moves without its empty-list entries is the move map
\* generate_moves gives for the current board, active_player and
\* locked_piece.  The emptiness tests that end a turn or name a victor were
\* made on fresh maps: a game without a victor has a move listed for the side
\* to move, a game with a victor has none, and a locked piece has a capture
\* listed.
C37_MoveMapFresh ==
    /\ Listed(moves) = GenerateMoves(board, active_player, locked_piece)
    /\ victor = NoPlayer <=> Listed(moves) # <<>>
    /\ locked_piece # None =>
          \E pos2 \in Range(Lookup(moves, locked_piece)) : IsJump(locked_piece, pos2)

\* The map holds empty-list entries that get_moves inserted, after a move
\* that left its piece locked.
C37_Witness ==
    /\ Listed(moves) # moves
    /\ locked_piece # None
    /\ last_move.op = "move_piece"
    /\ last_move.pos2 = locked_piece

====
